---------------------------- MODULE Spec2Model ----------------------------
(***************************************************************************)
(* Model of the lightshow analysis-to-output pipeline:                     *)
(*   - the DMX controller and its fixtures     (src/dmx_controller.py)     *)
(*   - the capture callback and analysis loop  (src/audio_processor.py)    *)
(*   - the effects tick's output step          (src/light_effects.py)      *)
(*   - the controller's stop sequence          (src/main.py)               *)
(* Python lists are modelled as functions over their 0-based indices.      *)
(***************************************************************************)
EXTENDS Integers, Sequences, FiniteSets, TLC

VARIABLES
    (* DMXController *)
    dmx_data,           \* self.dmx_data: [0..511 -> Int]
    lights,             \* self.lights: name -> [current_rgb, current_intensity]
    channels,           \* ParLight.channels of every light, after validation
    exc,                \* exception that left the last fixture call ("none" when it returned)
    serial_connection,  \* "none" (None), "open", "closed"
    break_condition,    \* break state of the serial line
    running,            \* DMXController.running
    out_pc,             \* position of the output thread
    frame_data,         \* local frame_data of _send_dmx_frame (<<>> when unset)
    frame_count,        \* DMXController.frame_count
    last_update_time,   \* number of assignments to self.last_update_time
    wire,               \* frame the sink received in the last write (<<>> once past it)
    line_events,        \* serial line events of the current output cycle
    snap,               \* history: the Universe and the call in progress when the frame was built
    sink_log,           \* history: the last frame written and when it was built
    (* effects tick: LightEffectsEngine._output_to_dmx on the main-loop thread *)
    fx_idx,             \* index of the light being written (0: no tick in progress)
    fx_intensity,       \* total_intensity of the tick
    fx_call,            \* the set_light_rgb call in progress (<<>>: none)
    call_pre,           \* history: the light's channel values when that call began
    (* LightEffectsEngine where its own fields are followed *)
    engine,             \* the fields of the engine
    clock,              \* the last reading of time.time(), in seconds
    tick_pc,            \* position inside update: "idle", or "colors" after _update_effect_mode
    tick_features,      \* audio_features of the update call in progress (<<>>: none)
    engine_ops,         \* number of calls made to the engine
    mode_log,           \* history: the last mode change (<<>>: none yet)
    engine_call,        \* history: the last call made to the engine and how it ended
    beat_log,           \* history: the boost the last beat set (<<>>: no beat yet)
    palette_log,        \* history: the palette colours the last tick chose at random, by fixture
    (* LightShowController *)
    ctl_running,        \* LightShowController.running
    stop_pc,            \* position of the thread inside LightShowController.stop
    stop_idx,           \* blackout: index of the light being written
    stop_call,          \* blackout: the set_light_rgb call in progress
    (* AudioProcessor *)
    audio_running,      \* AudioProcessor.running
    audio_stream,       \* "none" (None), "active", "aborted", "closed"
    audio_buffer,       \* self.audio_buffer: deque(maxlen = 4 * sample_rate)
    last_overflow_warning, \* self._last_overflow_warning ("unset" until first assigned)
    arrived,            \* number of samples the capture source has delivered
    pushed,             \* history: every sample appended to audio_buffer, in order
    cb,                 \* history: the last capture callback (<<>>: none yet)
    features,           \* the analysis results held in the processor's fields
    onset_times,        \* len(self.onset_times)
    onset_deque,        \* self.onset_times where the estimator is followed: the beat times
    tempo,              \* self.tempo where the estimator is followed: <<numerator, denominator>>
    volume_config,      \* config['audio_processing']['volume'] where the volume is followed
    current_volume,     \* self.current_volume where the volume is followed (a float)
    smoothed_volume,    \* self.smoothed_volume where the volume is followed (a float)
    volume_ticks,       \* number of windows _analyze_volume has been given
    an_pc,              \* position of the analysis thread
    an_tick,            \* number of windows the analysis loop has taken
    window,             \* local audio_data of _processing_loop (<<>> when unset)
    tick_states,        \* history: the features after construction and after each tick's last write
    an_pre,             \* history: the features when the current tick took its window
    an_failed,          \* history: the tick that took the last window ended in an exception
    rd_pc,              \* position of the thread inside get_audio_features
    rd_out,             \* the values that call has read so far
    features_out        \* the dict the last get_audio_features call returned (<<>>: none)

dmxVars == <<dmx_data, lights, channels, exc>>
serialVars == <<serial_connection, break_condition, running, out_pc, frame_data,
                frame_count, last_update_time, wire, line_events, snap, sink_log>>
engineVars == <<engine, clock, tick_pc, tick_features, engine_ops, mode_log, engine_call,
                beat_log, palette_log>>
fxVars == <<fx_idx, fx_intensity, fx_call, call_pre, engineVars>>
stopVars == <<ctl_running, stop_pc, stop_idx, stop_call>>
captureVars == <<audio_running, audio_stream, audio_buffer, last_overflow_warning,
                 arrived, pushed, cb>>
tickHist == <<an_pre, an_failed>>
tempoVars == <<onset_deque, tempo>>
volumeVars == <<volume_config, current_volume, smoothed_volume, volume_ticks>>
analysisVars == <<features, onset_times, an_pc, an_tick, window, tick_states, tickHist,
                  tempoVars, volumeVars>>
readerVars == <<rd_pc, rd_out, features_out>>
audioVars == <<captureVars, analysisVars, readerVars>>

vars == <<dmxVars, serialVars, fxVars, stopVars, audioVars>>

-----------------------------------------------------------------------------
(* Fixture model: ParLight and the DMXController setters                     *)

UniverseSize == 512
NoneCh == 0          \* an absent channel (None); 0 is falsy in the setters' tests as well
ByteMax == 255

Max(a, b) == IF a >= b THEN a ELSE b
Min(a, b) == IF a <= b THEN a ELSE b

RequiredChannels == {"red", "green", "blue"}

(* ParLight._validate_channels: required keys that are missing are added as  *)
(* None, then every number outside 1..512 becomes None.                      *)
MutValidateUpperBoundOnly(ch) ==
    LET withRequired == [k \in (DOMAIN ch) \cup RequiredChannels |->
                            IF k \in DOMAIN ch THEN ch[k] ELSE NoneCh]
    IN  [k \in DOMAIN withRequired |->
            IF withRequired[k] # NoneCh /\ ~(withRequired[k] <= UniverseSize)
            THEN NoneCh ELSE withRequired[k]]
validate_channels(ch) ==
    LET withRequired == [k \in (DOMAIN ch) \cup RequiredChannels |->
                            IF k \in DOMAIN ch THEN ch[k] ELSE NoneCh]
    IN  [k \in DOMAIN withRequired |->
            IF withRequired[k] # NoneCh
               /\ ~(1 <= withRequired[k] /\ withRequired[k] <= UniverseSize)
            THEN NoneCh ELSE withRequired[k]]

(* config['lights']['par_lights'], in configuration order.  par1 lists all   *)
(* five channels; par2 has an out-of-range blue, a null intensity and no     *)
(* strobe entry; par3 lists red only.                                        *)
lights_config ==
    << [name |-> "par1", dmx_address |-> 1,
        channels |-> [red |-> 1, green |-> 2, blue |-> 3, intensity |-> 4, strobe |-> 5]],
       [name |-> "par2", dmx_address |-> 511,
        channels |-> [red |-> 511, green |-> 512, blue |-> 513, intensity |-> NoneCh]],
       [name |-> "par3", dmx_address |-> 100,
        channels |-> [red |-> 100]] >>

(* The rig used where threads interleave: par1 alone. *)
stage_config == SubSeq(lights_config, 1, 1)

LightNamesOf(cfg) == {cfg[k].name : k \in 1..Len(cfg)}

(* DMXController._initialize_lights / ParLight.__init__ *)
initialize_lights(cfg) ==
    [n \in LightNamesOf(cfg) |-> [current_rgb |-> <<0, 0, 0>>, current_intensity |-> 0]]

initialize_channels(cfg) ==
    [n \in LightNamesOf(cfg) |->
        validate_channels(cfg[CHOOSE k \in 1..Len(cfg) : cfg[k].name = n].channels)]

(* max(0, min(255, v)) *)
MutClampUpperOnly(v) == Min(ByteMax, v)
Clamp(v) == Max(0, Min(ByteMax, v))

(* if light.channels[key]: self.dmx_data[light.channels[key] - 1] = v *)
MutWriteChannelNoOffset(d, ch, key, v) ==
    IF ch[key] # NoneCh /\ ch[key] \in DOMAIN d THEN [d EXCEPT ![ch[key]] = v] ELSE d
WriteChannel(d, ch, key, v) ==
    IF ch[key] # NoneCh THEN [d EXCEPT ![ch[key] - 1] = v] ELSE d

(* An optional argument is <<>> (None) or <<v>>. *)
Given(opt) == opt # <<>>

(* DMXController.set_light_rgb, statement by statement.  A call in progress  *)
(* is [light, step, red, green, blue, intensity]; the colour arguments are   *)
(* clamped on entry (lines 159-161), the optional intensity when its channel *)
(* exists (line 173).                                                        *)
rgb_call(name, red, green, blue, intensity) ==
    [light |-> name, step |-> "red",
     red |-> Clamp(red), green |-> Clamp(green), blue |-> Clamp(blue),
     intensity |-> intensity]

(* One statement of the call c on st = [dmx, lights, exc]: the result and    *)
(* the step that follows ("done" when the call has returned or raised).  The *)
(* lookup light.channels['intensity'] raises KeyError when the key is not    *)
(* listed; the three colour writes have happened by then, the update of the  *)
(* light's state has not.                                                    *)
rgb_step(st, chs, c) ==
    LET ch == chs[c.light]
        hasI == Given(c.intensity) /\ ch["intensity"] # NoneCh
        i == IF hasI THEN Clamp(c.intensity[1])
             ELSE IF Given(c.intensity) THEN c.intensity[1] ELSE 0
    IN  CASE c.step = "red" ->
               [st |-> [st EXCEPT !.dmx = WriteChannel(st.dmx, ch, "red", c.red)],
                next |-> "green"]
          [] c.step = "green" ->
               [st |-> [st EXCEPT !.dmx = WriteChannel(st.dmx, ch, "green", c.green)],
                next |-> "blue"]
          [] c.step = "blue" ->
               [st |-> [st EXCEPT !.dmx = WriteChannel(st.dmx, ch, "blue", c.blue)],
                next |-> "intensity"]
          [] c.step = "intensity" ->
               IF Given(c.intensity) /\ "intensity" \notin DOMAIN ch
               THEN [st |-> [st EXCEPT !.exc = "KeyError"], next |-> "done"]
               ELSE IF hasI
               THEN [st |-> [st EXCEPT !.dmx = WriteChannel(st.dmx, ch, "intensity", i)],
                     next |-> "state"]
               ELSE [st |-> st, next |-> "state"]
          [] c.step = "state" ->
               [st |-> [st EXCEPT !.lights[c.light].current_rgb =
                                      <<c.red, c.green, c.blue>>,
                                  !.lights[c.light].current_intensity =
                                      IF Given(c.intensity) THEN i ELSE @],
                next |-> "done"]

RECURSIVE run_rgb(_, _, _)
run_rgb(st, chs, c) ==
    LET r == rgb_step(st, chs, c)
    IN  IF r.next = "done" THEN r.st
        ELSE run_rgb(r.st, chs, [c EXCEPT !.step = r.next])

(* DMXController.set_light_rgb as one call: an unknown name returns at once. *)
set_light_rgb(st, chs, name, red, green, blue, intensity) ==
    IF name \notin DOMAIN st.lights THEN st
    ELSE run_rgb(st, chs, rgb_call(name, red, green, blue, intensity))

(* DMXController.set_light_intensity *)
set_light_intensity(st, chs, name, intensity) ==
    IF name \notin DOMAIN st.lights THEN st
    ELSE
      LET ch == chs[name]
          i  == Clamp(intensity)
      IN  IF "intensity" \notin DOMAIN ch THEN [st EXCEPT !.exc = "KeyError"]
          ELSE IF ch["intensity"] # NoneCh
          THEN [st EXCEPT !.dmx = WriteChannel(st.dmx, ch, "intensity", i),
                          !.lights[name].current_intensity = i]
          ELSE st

(* DMXController.set_light_strobe *)
MutSetLightStrobeNoLookupGuard(st, chs, name, strobe_speed) ==
    IF name \notin DOMAIN st.lights THEN [st EXCEPT !.exc = "KeyError"]
    ELSE
      LET ch == chs[name]
          s  == Clamp(strobe_speed)
      IN  IF "strobe" \notin DOMAIN ch THEN [st EXCEPT !.exc = "KeyError"]
          ELSE [st EXCEPT !.dmx = WriteChannel(st.dmx, ch, "strobe", s)]
set_light_strobe(st, chs, name, strobe_speed) ==
    IF name \notin DOMAIN st.lights THEN st
    ELSE
      LET ch == chs[name]
          s  == Clamp(strobe_speed)
      IN  IF "strobe" \notin DOMAIN ch THEN [st EXCEPT !.exc = "KeyError"]
          ELSE [st EXCEPT !.dmx = WriteChannel(st.dmx, ch, "strobe", s)]

(* DMXController.set_all_lights_rgb: the lights in configuration order; an   *)
(* exception ends the loop.                                                  *)
RECURSIVE set_all_from(_, _, _, _, _, _, _, _)
set_all_from(st, chs, cfg, k, red, green, blue, intensity) ==
    IF k > Len(cfg) \/ st.exc # "none" THEN st
    ELSE set_all_from(set_light_rgb(st, chs, cfg[k].name, red, green, blue, intensity),
                      chs, cfg, k + 1, red, green, blue, intensity)

set_all_lights_rgb(st, chs, cfg, red, green, blue, intensity) ==
    set_all_from(st, chs, cfg, 1, red, green, blue, intensity)

(* DMXController.set_all_lights_intensity *)
RECURSIVE set_all_intensity_from(_, _, _, _, _)
set_all_intensity_from(st, chs, cfg, k, intensity) ==
    IF k > Len(cfg) \/ st.exc # "none" THEN st
    ELSE set_all_intensity_from(set_light_intensity(st, chs, cfg[k].name, intensity),
                                chs, cfg, k + 1, intensity)

set_all_lights_intensity(st, chs, cfg, intensity) ==
    set_all_intensity_from(st, chs, cfg, 1, intensity)

(* DMXController.blackout *)
blackout(st, chs, cfg) == set_all_lights_rgb(st, chs, cfg, 0, 0, 0, <<0>>)

(* bytes([0x00] + self.dmx_data): 513 values, index 0 the start code.  bytes *)
(* raises ValueError unless every value is in 0..255.                        *)
MutFrameNoStartCode(d) == [i \in 0..(UniverseSize - 1) |-> d[i]]
Frame(d) == [i \in 0..UniverseSize |-> IF i = 0 THEN 0 ELSE d[i - 1]]

BytesOk(d) == \A i \in DOMAIN d : 0 <= d[i] /\ d[i] <= ByteMax

-----------------------------------------------------------------------------
(* Audio processor: capture callback, analysis loop, get_audio_features      *)

SampleRate == 2      \* self.sample_rate: samples per second, the window length
MaxSamples == 11     \* samples the capture source delivers
MaxTicks == 2        \* windows the analysis loop takes

(* deque(maxlen = self.sample_rate * 4) *)
Capacity == SampleRate * 4

(* Chunk lengths of the capture source and the status flags it reports. *)
ChunkSizes == {2, 3}
Statuses == {"none", "input_overflow", "other"}

(* deque.extend on a bounded deque: the items are appended on the right and  *)
(* the oldest ones are discarded on the left once maxlen is exceeded.        *)
extend(buf, chunk, maxlen) ==
    LET all == buf \o chunk
    IN  IF Len(all) > maxlen THEN SubSeq(all, Len(all) - maxlen + 1, Len(all)) ELSE all

(* len(self.audio_buffer) < self.audio_buffer.maxlen * 0.9 *)
BelowFillLimit(buf) == Len(buf) * 10 < Capacity * 9

(* list(self.audio_buffer)[-n:] *)
MutOldest(buf, n) == SubSeq(buf, 1, Min(n, Len(buf)))
latest(buf, n) == SubSeq(buf, Max(1, Len(buf) - n + 1), Len(buf))

(* AudioProcessor.__init__, lines 61-76.  A numeric result is represented by *)
(* the number of the analysis tick that computed it (0: the constructor's    *)
(* value); the beat flag by its value.                                       *)
initial_features ==
    [current_volume |-> 0, smoothed_volume |-> 0, beat_detected |-> FALSE,
     beat_strength |-> 0, tempo |-> 0,
     frequency_powers |-> [bass |-> 0, mid |-> 0, treble |-> 0],
     last_beat_time |-> 0]

(* __init__, line 76: self.tempo = 120.  A tempo is held as an exact         *)
(* fraction <<numerator, denominator>> with a positive denominator.          *)
initial_tempo == <<120, 1>>

(* A float is an exact fraction <<numerator, denominator>> with a positive   *)
(* denominator, or NaN.  Arithmetic on NaN gives NaN and every ordering      *)
(* comparison with NaN is false, as in IEEE 754.                             *)
NaN == <<>>
IsNaN(x) == x = NaN
RECURSIVE gcd(_, _)
gcd(a, b) == IF b = 0 THEN a ELSE gcd(b, a % b)
lowest(n, d) == LET g == gcd(IF n < 0 THEN -n ELSE n, d) IN <<n \div g, d \div g>>
fadd(x, y) == IF IsNaN(x) \/ IsNaN(y) THEN NaN ELSE lowest(x[1] * y[2] + y[1] * x[2], x[2] * y[2])
fsub(x, y) == IF IsNaN(x) \/ IsNaN(y) THEN NaN ELSE lowest(x[1] * y[2] - y[1] * x[2], x[2] * y[2])
fmul(x, y) == IF IsNaN(x) \/ IsNaN(y) THEN NaN ELSE lowest(x[1] * y[1], x[2] * y[2])
fgt(x, y) == ~IsNaN(x) /\ ~IsNaN(y) /\ x[1] * y[2] > y[1] * x[2]
fge(x, y) == ~IsNaN(x) /\ ~IsNaN(y) /\ x[1] * y[2] >= y[1] * x[2]
(* x / y for y > 0, the integer part of x >= 0, x % n for x >= 0 and an      *)
(* integer n > 0, and abs(x)                                                 *)
fdiv(x, y) == IF IsNaN(x) \/ IsNaN(y) THEN NaN ELSE lowest(x[1] * y[2], x[2] * y[1])
floor_of(x) == x[1] \div x[2]
fmod(x, n) == fsub(x, <<n * (floor_of(x) \div n), 1>>)
fabs(x) == IF IsNaN(x) THEN NaN ELSE <<IF x[1] < 0 THEN -x[1] ELSE x[1], x[2]>>

(* config['audio_processing']['volume'], read at lines 56-58: the smoothing  *)
(* factors lie in [0, 1]; a gain and a noise floor are positive.             *)
SmoothingFactors == {<<0, 1>>, <<1, 2>>, <<3, 4>>, <<1, 1>>}
Gains == {<<1, 1>>, <<3, 1>>}
NoiseFloors == {<<1, 2>>, <<2, 1>>}
VolumeConfigs ==
    [smoothing_factor : SmoothingFactors, gain : Gains, noise_floor : NoiseFloors]
default_volume_config ==
    [smoothing_factor |-> <<3, 4>>, gain |-> <<1, 1>>, noise_floor |-> <<1, 2>>]

(* __init__, lines 62-63: current_volume = 0.0, smoothed_volume = 0.0 *)
InitVolumeFields ==
    /\ current_volume = <<0, 1>>
    /\ smoothed_volume = <<0, 1>>
    /\ volume_ticks = 0

InitAudioFields ==
    /\ audio_running = FALSE
    /\ audio_stream = "none"
    /\ audio_buffer = <<>>
    /\ last_overflow_warning = <<>>
    /\ arrived = 0
    /\ pushed = <<>>
    /\ cb = <<>>
    /\ features = initial_features
    /\ onset_times = 0
    /\ tempo = initial_tempo
    /\ an_pc = "idle"
    /\ an_tick = 0
    /\ window = <<>>
    /\ tick_states = {initial_features}
    /\ an_pre = initial_features
    /\ an_failed = FALSE
    /\ rd_pc = "idle"
    /\ rd_out = <<>>
    /\ features_out = <<>>

InitAudioIdle ==
    /\ InitAudioFields
    /\ onset_deque = <<>>
    /\ volume_config = default_volume_config
    /\ InitVolumeFields

-----------------------------------------------------------------------------
(* Sequential use of the fixture setters (each call a whole handler)         *)

(* Arguments below, inside and above 0..255; the optional intensity of      *)
(* set_light_rgb comes with the colour it is passed with.                    *)
Integers3 == {-1, 100, 256}
RgbCalls == { [rgb |-> <<-1, 100, 256>>, intensity |-> <<>>],
              [rgb |-> <<256, -1, 100>>, intensity |-> <<256>>],
              [rgb |-> <<100, 256, -1>>, intensity |-> <<-1>>],
              [rgb |-> <<255, 0, 255>>,  intensity |-> <<100>>] }
CallNames == LightNamesOf(lights_config) \cup {"nobody"}

Cur == [dmx |-> dmx_data, lights |-> lights, exc |-> "none"]

Apply(st) ==
    /\ dmx_data' = st.dmx
    /\ lights' = st.lights
    /\ exc' = st.exc
    /\ UNCHANGED <<channels, serialVars, fxVars, stopVars, audioVars>>

CallSetLightRgb ==
    \E n \in CallNames, c \in RgbCalls :
        Apply(set_light_rgb(Cur, channels, n, c.rgb[1], c.rgb[2], c.rgb[3], c.intensity))

CallSetLightIntensity ==
    \E n \in CallNames, i \in Integers3 :
        Apply(set_light_intensity(Cur, channels, n, i))

CallSetLightStrobe ==
    \E n \in CallNames, s \in Integers3 :
        Apply(set_light_strobe(Cur, channels, n, s))

CallSetAllLightsRgb ==
    \E c \in RgbCalls :
        Apply(set_all_lights_rgb(Cur, channels, lights_config,
                                 c.rgb[1], c.rgb[2], c.rgb[3], c.intensity))

CallSetAllLightsIntensity ==
    \E i \in Integers3 :
        Apply(set_all_lights_intensity(Cur, channels, lights_config, i))

CallBlackout == Apply(blackout(Cur, channels, lights_config))

InitSerialIdle ==
    /\ break_condition = FALSE
    /\ running = FALSE
    /\ out_pc = "idle"
    /\ frame_data = <<>>
    /\ frame_count = 0
    /\ last_update_time = 0
    /\ wire = <<>>
    /\ line_events = <<>>
    /\ snap = <<>>
    /\ sink_log = [last_zero |-> TRUE, after_blackout |-> FALSE]

(* config['effects']: the palettes the engine names itself (lines 24 and     *)
(* 110-114) and the tuning parameters of lines 27-30.                        *)
color_palettes ==
    [energetic |-> << <<255, 0, 0>>, <<0, 255, 0>> >>,
     calm      |-> << <<0, 0, 255>> >>,
     warm      |-> << <<255, 128, 0>>, <<255, 0, 0>> >>]
effects_config ==
    [transition_speed |-> <<4, 5>>, intensity_multiplier |-> <<1, 1>>,
     beat_response_strength |-> <<6, 5>>]

(* LightEffectsEngine.__init__, lines 23-63, and _initialize_light_states.   *)
(* color_cycle_position counts steps of color_cycle_speed; the ping-pong     *)
(* position and the flash-storm timers are in units of 1/60.                 *)
initial_scratch ==
    [color_cycle_position |-> 0, ping_pong_position |-> 0, ping_pong_direction |-> 1,
     ping_pong_color_index |-> 0, flash_random_timer |-> 0, flash_color_timer |-> 0]
initial_engine(names, now) ==
    [current_palette |-> "energetic",
     transition_speed |-> effects_config.transition_speed,
     current_colors |-> [n \in names |-> <<0, 0, 0>>],
     target_colors |-> [n \in names |-> <<0, 0, 0>>],
     base_intensity |-> <<1, 2>>,
     beat_intensity_boost |-> <<0, 1>>,
     last_beat_time |-> 0,
     current_mode |-> "auto",
     mode_start_time |-> now,
     volume_history |-> <<>>,
     beat_history |-> <<>>,
     scratch |-> initial_scratch]

InitEngineFields ==
    /\ clock = 0
    /\ tick_pc = "idle"
    /\ tick_features = <<>>
    /\ engine_ops = 0
    /\ mode_log = <<>>
    /\ engine_call = <<>>
    /\ beat_log = <<>>
    /\ palette_log = <<>>

(* what an engine call outside a DMX write leaves alone *)
InitFxUnchanged == <<fx_idx, fx_intensity, fx_call, call_pre, clock, tick_pc, tick_features,
                     engine_ops, mode_log, engine_call, beat_log,
                     palette_log>>

InitFxFields ==
    /\ fx_idx = 0
    /\ fx_intensity = 0
    /\ fx_call = <<>>
    /\ call_pre = <<>>

InitFxIdle ==
    /\ InitFxFields
    /\ engine = initial_engine(LightNamesOf(stage_config), 0)
    /\ InitEngineFields

InitStopIdle ==
    /\ ctl_running = FALSE
    /\ stop_pc = "none"
    /\ stop_idx = 0
    /\ stop_call = <<>>

(* DMXController.__init__ *)
InitFixtures(cfg) ==
    /\ dmx_data = [i \in 0..(UniverseSize - 1) |-> 0]
    /\ lights = initialize_lights(cfg)
    /\ channels = initialize_channels(cfg)
    /\ exc = "none"

InitFixture ==
    /\ InitFixtures(lights_config)
    /\ serial_connection = "none"
    /\ InitSerialIdle
    /\ InitFxIdle
    /\ InitStopIdle
    /\ InitAudioIdle

NextFixture ==
    \/ CallSetLightRgb
    \/ CallSetLightIntensity
    \/ CallSetLightStrobe
    \/ CallSetAllLightsRgb
    \/ CallSetAllLightsIntensity
    \/ CallBlackout

SpecFixture == InitFixture /\ [][NextFixture]_vars

-----------------------------------------------------------------------------
(* The output thread, the effects tick and the stop sequence, interleaved    *)

MaxFrames == 2       \* output cycles modelled

(* The colour the effects tick hands to set_light_rgb (a smoothed current    *)
(* colour, integers in 0..255) and its total_intensity values.               *)
FxColors == {<<255, 128, 64>>}
FxIntensities == {255}
StrobeArgs == {255}

AllZero(f) == \A i \in DOMAIN f : f[i] = 0

(* The channel values of light n that set_light_rgb addresses. *)
RgbKeys(n) ==
    {k \in DOMAIN channels[n] \cap {"red", "green", "blue", "intensity"} :
        channels[n][k] # NoneCh}
OwnValues(n, d) == [k \in RgbKeys(n) |-> d[channels[n][k] - 1]]

SetFixtures(st) ==
    /\ dmx_data' = st.dmx
    /\ lights' = st.lights
    /\ exc' = st.exc
    /\ UNCHANGED channels

(* LightShowController.start: running = True, DMXController.start, main loop *)
Start ==
    /\ out_pc = "idle" /\ ~running /\ stop_pc = "none"
    /\ ctl_running' = TRUE
    /\ running' = TRUE
    /\ out_pc' = "top"
    /\ UNCHANGED <<dmxVars, serial_connection, break_condition, frame_data, frame_count,
                   last_update_time, wire, line_events, snap, sink_log, fxVars,
                   stop_pc, stop_idx, stop_call, audioVars>>

OutUnchanged == <<dmxVars, fxVars, stopVars, audioVars, running, serial_connection>>

(* _output_loop, line 104: while self.running *)
MutOutLoopTopIgnoresFlag(cap) ==
    /\ out_pc = "top"
    /\ frame_count < cap
    /\ out_pc' = "send"
    /\ UNCHANGED <<OutUnchanged, break_condition, frame_data, frame_count,
                   last_update_time, wire, line_events, snap, sink_log>>
OutLoopTop(cap) ==
    /\ out_pc = "top"
    /\ running => frame_count < cap
    /\ out_pc' = IF running THEN "send" ELSE "exited"
    /\ UNCHANGED <<OutUnchanged, break_condition, frame_data, frame_count,
                   last_update_time, wire, line_events, snap, sink_log>>

OutTop == OutLoopTop(MaxFrames)

(* The loop top where the effects tick and the stop sequence interleave      *)
(* with the output thread: fewer cycles are followed there.                  *)
StageFrames == 1
StageOutTop == OutLoopTop(StageFrames)

(* _send_dmx_frame, lines 124-127: simulation mode when no sink is attached *)
MutOutSendNoStamp ==
    /\ out_pc = "send"
    /\ line_events' = <<>>
    /\ IF serial_connection = "none"
       THEN UNCHANGED last_update_time /\ out_pc' = "count"
       ELSE UNCHANGED last_update_time /\ out_pc' = "break_on"
    /\ UNCHANGED <<OutUnchanged, break_condition, frame_data, frame_count,
                   wire, snap, sink_log>>
OutSend ==
    /\ out_pc = "send"
    /\ line_events' = <<>>
    /\ IF serial_connection = "none"
       THEN last_update_time' = last_update_time + 1 /\ out_pc' = "count"
       ELSE UNCHANGED last_update_time /\ out_pc' = "break_on"
    /\ UNCHANGED <<OutUnchanged, break_condition, frame_data, frame_count,
                   wire, snap, sink_log>>

(* A serial operation raises; line 147 catches it and the call returns. *)
MutSerialRaisesEndsLoop ==
    /\ out_pc' = "exited"
    /\ UNCHANGED <<OutUnchanged, break_condition, frame_data, frame_count,
                   last_update_time, wire, line_events, snap, sink_log>>
SerialRaises ==
    /\ out_pc' = "count"
    /\ UNCHANGED <<OutUnchanged, break_condition, frame_data, frame_count,
                   last_update_time, wire, line_events, snap, sink_log>>

(* line 134: break_condition = True *)
MutOutBreakOnOnly ==
    /\ out_pc = "break_on"
    /\ break_condition' = TRUE
    /\ line_events' = Append(line_events, "break_on")
    /\ out_pc' = "write"
    /\ UNCHANGED <<OutUnchanged, frame_data, frame_count, last_update_time,
                   wire, snap, sink_log>>
OutBreakOn ==
    /\ out_pc = "break_on"
    /\ \/ /\ break_condition' = TRUE
          /\ line_events' = Append(line_events, "break_on")
          /\ out_pc' = "break_off"
          /\ UNCHANGED <<OutUnchanged, frame_data, frame_count, last_update_time,
                         wire, snap, sink_log>>
       \/ SerialRaises

(* line 136: break_condition = False, then the mark after break *)
OutBreakOff ==
    /\ out_pc = "break_off"
    /\ \/ /\ break_condition' = FALSE
          /\ line_events' = Append(line_events, "break_off")
          /\ out_pc' = "write"
          /\ UNCHANGED <<OutUnchanged, frame_data, frame_count, last_update_time,
                         wire, snap, sink_log>>
       \/ SerialRaises

(* lines 142-143: frame_data = bytes([0x00] + self.dmx_data), a copy of the  *)
(* Universe taken in one step, then self.serial_connection.write(frame_data) *)
(* on the port only this thread uses.  bytes() raises ValueError for a value *)
(* outside 0..255, and the write may raise.                                  *)
OutWrite ==
    /\ out_pc = "write"
    /\ \/ /\ BytesOk(dmx_data) = TRUE
          /\ frame_data' = Frame(dmx_data)
          /\ snap' = [dmx |-> dmx_data,
                      call |-> IF fx_call = <<>> THEN <<>>
                               ELSE [light |-> fx_call.light, old |-> call_pre,
                                     new |-> [k \in DOMAIN call_pre |->
                                                 IF k = "intensity"
                                                 THEN Clamp(fx_call.intensity[1])
                                                 ELSE fx_call[k]]]]
          /\ wire' = Frame(dmx_data)
          /\ line_events' = Append(line_events, "write")
          /\ sink_log' = [last_zero |-> AllZero(Frame(dmx_data)),
                          after_blackout |-> stop_pc \in {"sleep", "dmx_stop", "join", "close"}]
          /\ out_pc' = "stamp"
          /\ UNCHANGED <<OutUnchanged, break_condition, frame_count, last_update_time>>
       \/ SerialRaises

(* line 145: self.last_update_time = time.time(), and the call returns *)
OutStamp ==
    /\ out_pc = "stamp"
    /\ last_update_time' = last_update_time + 1
    /\ frame_data' = <<>>
    /\ wire' = <<>>
    /\ snap' = <<>>
    /\ out_pc' = "count"
    /\ UNCHANGED <<OutUnchanged, break_condition, frame_count, line_events, sink_log>>

(* _output_loop, lines 109-116: frame_count += 1, then sleep *)
OutCount ==
    /\ out_pc = "count"
    /\ frame_count' = frame_count + 1
    /\ out_pc' = "top"
    /\ UNCHANGED <<OutUnchanged, break_condition, frame_data, last_update_time, wire,
                   line_events, snap, sink_log>>

(* main loop iteration reaching LightEffectsEngine._output_to_dmx, line 464 *)
FxBeginTick ==
    /\ ctl_running /\ fx_idx = 0
    /\ fx_idx' = 1
    /\ \E ti \in FxIntensities : fx_intensity' = ti
    /\ UNCHANGED <<dmxVars, serialVars, stopVars, audioVars, fx_call, call_pre, engineVars>>

(* _output_to_dmx, lines 466-473: the call for the next light *)
FxBeginCall ==
    /\ fx_idx \in 1..Len(stage_config) /\ fx_call = <<>>
    /\ \E c \in FxColors :
          fx_call' = rgb_call(stage_config[fx_idx].name, c[1], c[2], c[3], <<fx_intensity>>)
    /\ call_pre' = OwnValues(stage_config[fx_idx].name, dmx_data)
    /\ UNCHANGED <<dmxVars, serialVars, stopVars, audioVars, fx_idx, fx_intensity, engineVars>>

(* one statement of set_light_rgb on the main-loop thread; an exception ends *)
(* the tick (update, line 100)                                               *)
FxStep ==
    /\ fx_call # <<>>
    /\ LET r == rgb_step(Cur, channels, fx_call)
       IN  /\ SetFixtures(r.st)
           /\ IF r.next = "done"
              THEN /\ fx_call' = <<>>
                   /\ call_pre' = <<>>
                   /\ fx_idx' = IF fx_idx = Len(stage_config) \/ r.st.exc # "none"
                                THEN 0 ELSE fx_idx + 1
              ELSE /\ fx_call' = [fx_call EXCEPT !.step = r.next]
                   /\ UNCHANGED <<call_pre, fx_idx>>
    /\ UNCHANGED <<serialVars, stopVars, audioVars, fx_intensity, engineVars>>

(* set_light_strobe called by an external collaborator on a light that lists *)
(* a strobe channel                                                          *)
ApiSetStrobe ==
    /\ \E n \in {m \in DOMAIN channels : "strobe" \in DOMAIN channels[m]}, v \in StrobeArgs :
          SetFixtures(set_light_strobe(Cur, channels, n, v))
    /\ UNCHANGED <<serialVars, fxVars, stopVars, audioVars>>

(* LightShowController.stop, lines 155-163: running = False, then blackout  *)
StopBegin ==
    /\ stop_pc = "none"
    /\ ctl_running' = FALSE
    /\ stop_pc' = "blackout"
    /\ stop_idx' = 1
    /\ stop_call' = rgb_call(stage_config[1].name, 0, 0, 0, <<0>>)
    /\ UNCHANGED <<dmxVars, serialVars, fxVars, audioVars>>

(* blackout -> set_all_lights_rgb(0, 0, 0, 0): one statement of the call in  *)
(* progress; an exception leaves stop() before DMXController.stop            *)
StopBlackoutStep ==
    /\ stop_pc = "blackout"
    /\ LET r == rgb_step(Cur, channels, stop_call)
       IN  /\ SetFixtures(r.st)
           /\ IF r.next # "done"
              THEN /\ stop_call' = [stop_call EXCEPT !.step = r.next]
                   /\ UNCHANGED <<stop_pc, stop_idx>>
              ELSE IF r.st.exc # "none"
              THEN stop_pc' = "raised" /\ stop_call' = <<>> /\ UNCHANGED stop_idx
              ELSE IF stop_idx = Len(stage_config)
              THEN stop_pc' = "sleep" /\ stop_call' = <<>> /\ UNCHANGED stop_idx
              ELSE /\ stop_idx' = stop_idx + 1
                   /\ stop_call' = rgb_call(stage_config[stop_idx + 1].name, 0, 0, 0, <<0>>)
                   /\ UNCHANGED stop_pc
    /\ UNCHANGED <<serialVars, fxVars, audioVars, ctl_running>>

(* main.py line 164: time.sleep(0.1) *)
StopSleep ==
    /\ stop_pc = "sleep"
    /\ stop_pc' = "dmx_stop"
    /\ UNCHANGED <<dmxVars, serialVars, fxVars, audioVars, ctl_running, stop_idx, stop_call>>

(* DMXController.stop, line 90: self.running = False *)
StopFlag ==
    /\ stop_pc = "dmx_stop"
    /\ running' = FALSE
    /\ stop_pc' = "join"
    /\ UNCHANGED <<dmxVars, fxVars, audioVars, ctl_running, stop_idx, stop_call, serial_connection,
                   break_condition, out_pc, frame_data, frame_count, last_update_time,
                   wire, line_events, snap, sink_log>>

(* lines 92-93: join the output thread if one was started *)
StopJoin ==
    /\ stop_pc = "join"
    /\ out_pc \in {"idle", "exited"}
    /\ stop_pc' = "close"
    /\ UNCHANGED <<dmxVars, serialVars, fxVars, audioVars, ctl_running, stop_idx, stop_call>>

(* lines 95-96: close the sink if there is one *)
StopClose ==
    /\ stop_pc = "close"
    /\ serial_connection' = IF serial_connection = "open" THEN "closed"
                            ELSE serial_connection
    /\ stop_pc' = "done"
    /\ UNCHANGED <<dmxVars, fxVars, audioVars, ctl_running, stop_idx, stop_call, break_condition,
                   running, out_pc, frame_data, frame_count, last_update_time, wire,
                   line_events, snap, sink_log>>

(* _setup_dmx_interface: the sink stays None when the serial module is       *)
(* missing (lines 58-60) or when opening the port raises (lines 74-76).      *)
setup_dmx_interface(serial_available, port_opens) ==
    IF serial_available /\ port_opens THEN "open" ELSE "none"

(* After construction: _setup_dmx_interface opened the sink or left it None. *)
InitDmx ==
    /\ InitFixtures(stage_config)
    /\ \E serial_available, port_opens \in BOOLEAN :
          serial_connection = setup_dmx_interface(serial_available, port_opens)
    /\ InitSerialIdle
    /\ InitFxIdle
    /\ InitStopIdle
    /\ InitAudioIdle

NextDmx ==
    \/ Start
    \/ StageOutTop \/ OutSend \/ OutBreakOn \/ OutBreakOff \/ OutWrite
    \/ OutStamp \/ OutCount
    \/ FxBeginTick \/ FxBeginCall \/ FxStep
    \/ ApiSetStrobe
    \/ StopBegin \/ StopBlackoutStep \/ StopSleep \/ StopFlag \/ StopJoin \/ StopClose

SpecDmx == InitDmx /\ [][NextDmx]_vars

-----------------------------------------------------------------------------
(* The capture callback, the analysis thread and a caller of                 *)
(* get_audio_features, interleaved                                           *)

NotAudio == <<dmxVars, serialVars, fxVars, stopVars>>

(* AudioProcessor.start, lines 320-361 *)
AudioStart ==
    /\ ~audio_running /\ an_pc = "idle" /\ stop_pc = "none"
    /\ audio_running' = TRUE
    /\ audio_stream' = "active"
    /\ an_pc' = "top"
    /\ UNCHANGED <<NotAudio, audio_buffer, last_overflow_warning, arrived, pushed, cb,
                   features, onset_times, an_tick, window, tick_states, tickHist,
                   tempoVars, volumeVars, readerVars>>

(* _audio_callback(indata, frames, time, status), lines 285-316, on the      *)
(* capture thread.  The samples of the chunk are numbered by arrival.  With  *)
(* status.input_overflow set, line 292 calls time.time() on the callback's   *)
(* own time argument, which has no such attribute: AttributeError leaves the *)
(* callback before the try block; the stream may be aborted by that.         *)
Capture(sizes, statuses) ==
    /\ audio_stream = "active"
    /\ \E size \in sizes, status \in statuses :
          /\ arrived + size <= MaxSamples
          /\ LET chunk == [k \in 1..size |-> arrived + k]
                 note(result) == [status |-> status, chunk |-> chunk,
                                  before |-> audio_buffer, result |-> result]
             IN  /\ arrived' = arrived + size
                 /\ IF status = "input_overflow"
                    THEN /\ last_overflow_warning' =
                               IF last_overflow_warning = <<>> THEN <<0>>
                               ELSE last_overflow_warning
                         /\ cb' = note("raised")
                         /\ audio_stream' \in {"active", "aborted"}
                         /\ UNCHANGED <<audio_buffer, pushed>>
                    ELSE IF BelowFillLimit(audio_buffer)
                    THEN /\ audio_buffer' = extend(audio_buffer, chunk, Capacity)
                         /\ pushed' = pushed \o chunk
                         /\ cb' = note("accepted")
                         /\ UNCHANGED <<last_overflow_warning, audio_stream>>
                    ELSE /\ cb' = note("dropped")
                         /\ UNCHANGED <<audio_buffer, pushed, last_overflow_warning,
                                        audio_stream>>
    /\ UNCHANGED <<NotAudio, audio_running, analysisVars, readerVars>>

AudioCallback == Capture(ChunkSizes, Statuses)

AnUnchanged == <<NotAudio, captureVars, readerVars, tempoVars, volumeVars>>

(* _processing_loop, lines 411-415: too little audio, sleep and poll again *)
AnLoopTop(cap) ==
    /\ an_pc = "top"
    /\ (audio_running /\ Len(audio_buffer) >= SampleRate) => an_tick < cap
    /\ an_pc' = IF ~audio_running THEN "exited"
                ELSE IF Len(audio_buffer) < SampleRate THEN "top" ELSE "window"
    /\ UNCHANGED <<AnUnchanged, features, onset_times, an_tick, window, tick_states,
                   tickHist>>

AnTop == AnLoopTop(MaxTicks)

(* line 418: audio_data = np.array(list(self.audio_buffer)[-self.sample_rate:]) *)
AnWindow ==
    /\ an_pc = "window"
    /\ window' = [data |-> latest(audio_buffer, SampleRate), pushed_len |-> Len(pushed)]
    /\ an_tick' = an_tick + 1
    /\ an_pre' = features
    /\ an_failed' = FALSE
    /\ an_pc' = "smoothed_volume"
    /\ UNCHANGED <<AnUnchanged, features, onset_times, tick_states>>

(* _analyze_volume, lines 440 and 443 *)
AnVolume ==
    /\ an_pc \in {"smoothed_volume", "current_volume"}
    /\ features' = [features EXCEPT ![an_pc] = an_tick]
    /\ an_pc' = IF an_pc = "smoothed_volume" THEN "current_volume" ELSE "bass"
    /\ UNCHANGED <<AnUnchanged, onset_times, an_tick, window, tick_states, tickHist>>

(* _analyze_frequency_bands, lines 466-475: one band per iteration *)
AnBand ==
    /\ an_pc \in {"bass", "mid", "treble"}
    /\ features' = [features EXCEPT !.frequency_powers[an_pc] = an_tick]
    /\ an_pc' = CASE an_pc = "bass" -> "mid"
                  [] an_pc = "mid" -> "treble"
                  [] an_pc = "treble" -> "beats"
    /\ UNCHANGED <<AnUnchanged, onset_times, an_tick, window, tick_states, tickHist>>

(* _detect_beats, lines 503, 522, 524, 528: the flag of this tick *)
AnBeatFlag ==
    /\ an_pc = "beats"
    /\ \E beat \in BOOLEAN :
          /\ features' = [features EXCEPT !.beat_detected = beat]
          /\ an_pc' = IF beat THEN "last_beat_time" ELSE "sleep"
          /\ tick_states' = IF beat THEN tick_states ELSE tick_states \cup {features'}
    /\ UNCHANGED <<AnUnchanged, onset_times, an_tick, window, tickHist>>

(* lines 504 and 514 *)
AnBeat ==
    /\ an_pc \in {"last_beat_time", "beat_strength"}
    /\ features' = [features EXCEPT ![an_pc] = an_tick]
    /\ an_pc' = IF an_pc = "last_beat_time" THEN "beat_strength" ELSE "onset"
    /\ UNCHANGED <<AnUnchanged, onset_times, an_tick, window, tick_states, tickHist>>

(* lines 519-520: onset_times.append, then _estimate_tempo, which assigns    *)
(* self.tempo when it has two onsets and an interval survives the filter     *)
AnOnset ==
    /\ an_pc = "onset"
    /\ onset_times' = Min(100, onset_times + 1)
    /\ \E usable \in BOOLEAN :
          features' = IF onset_times' >= 2 /\ usable
                      THEN [features EXCEPT !.tempo = an_tick] ELSE features
    /\ tick_states' = tick_states \cup {features'}
    /\ an_pc' = "sleep"
    /\ UNCHANGED <<AnUnchanged, an_tick, window, tickHist>>

(* An exception inside _analyze_volume or _analyze_frequency_bands (before   *)
(* the assignment the thread is about to make) leaves the tick; line 427     *)
(* catches it and the loop sleeps.                                           *)
AnRaises ==
    /\ an_pc \in {"smoothed_volume", "bass", "mid", "treble"}
    /\ an_failed' = TRUE
    /\ tick_states' = tick_states \cup {features}
    /\ an_pc' = "sleep"
    /\ UNCHANGED <<AnUnchanged, features, onset_times, an_tick, window, an_pre>>

(* An exception inside _detect_beats: lines 526-528 catch it and clear the   *)
(* flag; the tick goes on to its sleep.                                      *)
AnBeatRaises ==
    /\ an_pc \in {"beats", "last_beat_time", "beat_strength", "onset"}
    /\ features' = [features EXCEPT !.beat_detected = FALSE]
    /\ an_failed' = TRUE
    /\ tick_states' = tick_states \cup {features'}
    /\ an_pc' = "sleep"
    /\ UNCHANGED <<AnUnchanged, onset_times, an_tick, window, an_pre>>

(* lines 425 and 429: the tick is over *)
AnSleep ==
    /\ an_pc = "sleep"
    /\ window' = <<>>
    /\ an_pc' = "top"
    /\ UNCHANGED <<AnUnchanged, features, onset_times, an_tick, tick_states, tickHist>>

(* get_audio_features, lines 571-579: the fields in the order the dict       *)
(* display reads them; frequency_powers.copy() is one read                   *)
FeatureKeys ==
    <<"current_volume", "smoothed_volume", "beat_detected", "beat_strength", "tempo",
      "frequency_powers", "last_beat_time">>

GetAudioFeatures ==
    /\ rd_pc = "idle"
    /\ rd_pc' = "reading"
    /\ rd_out' = <<>>
    /\ features_out' = <<>>
    /\ UNCHANGED <<NotAudio, captureVars, analysisVars>>

ReadFeature ==
    /\ rd_pc = "reading"
    /\ LET out == Append(rd_out, features[FeatureKeys[Len(rd_out) + 1]])
       IN  IF Len(out) = Len(FeatureKeys)
           THEN /\ features_out' = [k \in DOMAIN features |->
                                       out[CHOOSE i \in DOMAIN FeatureKeys : FeatureKeys[i] = k]]
                /\ rd_out' = <<>>
                /\ rd_pc' = "idle"
           ELSE /\ rd_out' = out
                /\ UNCHANGED <<rd_pc, features_out>>
    /\ UNCHANGED <<NotAudio, captureVars, analysisVars>>

InitAudio ==
    /\ InitFixtures(stage_config)
    /\ serial_connection = "none"
    /\ InitSerialIdle
    /\ InitFxIdle
    /\ InitStopIdle
    /\ InitAudioIdle

(* The capture source and the analysis thread. *)
NextAudio ==
    \/ AudioStart
    \/ AudioCallback
    \/ AnTop \/ AnWindow \/ AnVolume \/ AnBand \/ AnBeatFlag \/ AnBeat \/ AnOnset \/ AnSleep

SpecAudio == InitAudio /\ [][NextAudio]_vars

(* The analysis thread and a caller of get_audio_features, with a capture    *)
(* source that delivers one second of audio per callback and no status flag. *)
SteadyCallback == Capture({SampleRate}, {"none"})

NextFeatures ==
    \/ AudioStart
    \/ SteadyCallback
    \/ AnTop \/ AnWindow \/ AnVolume \/ AnBand \/ AnBeatFlag \/ AnBeat \/ AnOnset \/ AnSleep
    \/ GetAudioFeatures \/ ReadFeature

SpecFeatures == InitAudio /\ [][NextFeatures]_vars

(* AudioProcessor.start, lines 318-363, with a backend that may refuse the   *)
(* stream: opened is whether sd.InputStream could be created, with the       *)
(* detected device or with the system default (lines 328-351).  The flag is  *)
(* set at line 323, before the attempt; when both attempts fail the          *)
(* exception is raised again at line 354 and leaves start().                 *)
start_outcome(is_running, opened) ==
    IF is_running THEN [running |-> TRUE, stream |-> <<>>, thread |-> FALSE]
    ELSE IF ~opened THEN [running |-> TRUE, stream |-> <<>>, thread |-> FALSE]
    ELSE [running |-> TRUE, stream |-> <<"active">>, thread |-> TRUE]

AudioTryStart ==
    /\ stop_pc = "none"
    /\ \E opened \in BOOLEAN :
          LET r == start_outcome(audio_running, opened)
          IN  /\ audio_running' = r.running
              /\ audio_stream' = IF r.stream = <<>> THEN audio_stream ELSE r.stream[1]
              /\ an_pc' = IF r.thread THEN "top" ELSE an_pc
    /\ UNCHANGED <<NotAudio, audio_buffer, last_overflow_warning, arrived, pushed, cb,
                   features, onset_times, an_tick, window, tick_states, tickHist,
                   tempoVars, volumeVars, readerVars>>

NextStartAudio ==
    \/ AudioTryStart
    \/ AudioCallback
    \/ AnTop \/ AnWindow \/ AnVolume \/ AnBand \/ AnBeatFlag \/ AnBeat \/ AnOnset \/ AnSleep

SpecStartAudio == InitAudio /\ [][NextStartAudio]_vars

(* A capture source that goes on delivering chunks and an analysis loop that *)
(* goes on taking windows.  Samples are numbered by arrival modulo           *)
(* StreamLabels and windows are counted modulo MaxTicks + 1, so that both    *)
(* threads can be followed without end.                                      *)
StreamLabels == 12

(* _audio_callback, lines 285-316, with no status flag set *)
StreamCallback ==
    /\ audio_stream = "active"
    /\ \E size \in ChunkSizes :
          LET chunk == [k \in 1..size |-> (arrived + k) % StreamLabels]
              note(result) == [status |-> "none", chunk |-> chunk,
                               before |-> audio_buffer, result |-> result]
          IN  /\ arrived' = (arrived + size) % StreamLabels
              /\ IF BelowFillLimit(audio_buffer)
                 THEN /\ audio_buffer' = extend(audio_buffer, chunk, Capacity)
                      /\ pushed' = pushed \o chunk
                      /\ cb' = note("accepted")
                 ELSE /\ cb' = note("dropped")
                      /\ UNCHANGED <<audio_buffer, pushed>>
    /\ UNCHANGED <<NotAudio, audio_running, audio_stream, last_overflow_warning,
                   analysisVars, readerVars>>

(* _processing_loop, lines 411-425: one pass of the loop.  With less than a  *)
(* window of audio it sleeps and polls again; otherwise it takes the latest  *)
(* window (line 418) and analyses it.  Nothing in the pass removes samples   *)
(* from audio_buffer.                                                        *)
StreamWindow ==
    /\ audio_running /\ an_pc = "top"
    /\ Len(audio_buffer) >= SampleRate
    /\ window' = [data |-> latest(audio_buffer, SampleRate), pushed_len |-> Len(pushed)]
    /\ an_tick' = (an_tick + 1) % (MaxTicks + 1)
    /\ UNCHANGED <<NotAudio, captureVars, readerVars, features, onset_times, an_pc,
                   tick_states, tickHist, tempoVars, volumeVars>>

NextStream ==
    \/ AudioStart
    \/ StreamCallback
    \/ StreamWindow

(* The capture thread of the audio backend calls the callback for every      *)
(* chunk, and the analysis thread is scheduled again after each sleep.       *)
SpecStream ==
    /\ InitAudio
    /\ [][NextStream]_vars
    /\ WF_vars(StreamCallback)
    /\ WF_vars(StreamWindow)

-----------------------------------------------------------------------------
(* Shutdown: LightShowController.stop against the running output thread and  *)
(* analysis thread                                                           *)

(* main.py lines 155-159: running = False, then audio_processor.stop() *)
StopBeginAudio ==
    /\ stop_pc = "none"
    /\ ctl_running' = FALSE
    /\ stop_pc' = "audio_stop"
    /\ UNCHANGED <<dmxVars, serialVars, fxVars, audioVars, stop_idx, stop_call>>

(* AudioProcessor.stop, line 367: self.running = False *)
AudioStopFlag ==
    /\ stop_pc = "audio_stop"
    /\ audio_running' = FALSE
    /\ stop_pc' = "audio_stream"
    /\ UNCHANGED <<dmxVars, serialVars, fxVars, ctl_running, stop_idx, stop_call,
                   audio_stream, audio_buffer, last_overflow_warning, arrived, pushed, cb,
                   analysisVars, readerVars>>

(* lines 369-371: stop and close the stream if there is one *)
AudioStopStream ==
    /\ stop_pc = "audio_stream"
    /\ audio_stream' = IF audio_stream = "none" THEN "none" ELSE "closed"
    /\ stop_pc' = "audio_join"
    /\ UNCHANGED <<dmxVars, serialVars, fxVars, ctl_running, stop_idx, stop_call,
                   audio_running, audio_buffer, last_overflow_warning, arrived, pushed, cb,
                   analysisVars, readerVars>>

(* lines 373-374: join the analysis thread if one was started; stop() then   *)
(* goes on to the blackout (main.py lines 161-163)                           *)
AudioStopJoin ==
    /\ stop_pc = "audio_join"
    /\ an_pc \in {"idle", "exited"}
    /\ stop_pc' = "blackout"
    /\ stop_idx' = 1
    /\ stop_call' = rgb_call(stage_config[1].name, 0, 0, 0, <<0>>)
    /\ UNCHANGED <<dmxVars, serialVars, fxVars, audioVars, ctl_running>>

(* A capture source that delivers the whole buffer in one chunk. *)
BurstCallback == Capture({Capacity}, {"none"})

(* The analysis thread with ticks that may raise, fed by that source. *)
NextAnalysis ==
    \/ AudioStart
    \/ BurstCallback
    \/ AnTop \/ AnWindow \/ AnVolume \/ AnBand \/ AnBeatFlag \/ AnBeat \/ AnOnset \/ AnSleep
    \/ AnRaises \/ AnBeatRaises

SpecAnalysis == InitAudio /\ [][NextAnalysis]_vars

(* Loop iterations taken while a shutdown is followed. *)
StopFrames == 1
StopTicks == 1

StopOutTop == OutLoopTop(StopFrames)
StopAnTop == AnLoopTop(StopTicks)

OutputStep ==
    StopOutTop \/ OutSend \/ OutBreakOn \/ OutBreakOff \/ OutWrite \/ OutStamp \/ OutCount

AnalysisStep ==
    \/ StopAnTop \/ AnWindow \/ AnVolume \/ AnBand \/ AnBeatFlag \/ AnBeat \/ AnOnset
    \/ AnSleep \/ AnRaises \/ AnBeatRaises

StopStep ==
    \/ AudioStopFlag \/ AudioStopStream \/ AudioStopJoin
    \/ StopBlackoutStep \/ StopSleep \/ StopFlag \/ StopJoin \/ StopClose

NextStop ==
    \/ Start
    \/ AudioStart
    \/ BurstCallback
    \/ StopOutTop \/ OutSend \/ OutBreakOn \/ OutBreakOff \/ OutWrite \/ OutStamp \/ OutCount
    \/ StopAnTop \/ AnWindow \/ AnVolume \/ AnBand \/ AnBeatFlag \/ AnBeat \/ AnOnset
    \/ AnSleep \/ AnRaises \/ AnBeatRaises
    \/ StopBeginAudio
    \/ AudioStopFlag \/ AudioStopStream \/ AudioStopJoin
    \/ StopBlackoutStep \/ StopSleep \/ StopFlag \/ StopJoin \/ StopClose

(* Every thread that can take a step eventually takes one: the output        *)
(* thread, the analysis thread and the thread inside stop() are operating    *)
(* system threads that are scheduled again after each sleep.                 *)
SpecStop ==
    /\ InitDmx
    /\ [][NextStop]_vars
    /\ WF_vars(OutputStep)
    /\ WF_vars(AnalysisStep)
    /\ WF_vars(StopStep)

(* LightEffectsEngine.update on the main-loop thread alone, over the whole   *)
(* rig.  current_colors holds integers in 0..255 after the transitions, and  *)
(* total_intensity is min(255, int(...)).                                    *)
TickLevels == {0, 128, 255}
TickIntensities == {0, 64, 128, 255}

(* _output_to_dmx, lines 462-473: set_light_rgb for every light in the order *)
(* of current_colors (the controller's lights), always with total_intensity; *)
(* an exception leaves the loop.                                             *)
output_to_dmx(st, chs, cfg, color, total_intensity) ==
    set_all_from(st, chs, cfg, 1, color[1], color[2], color[3], <<total_intensity>>)

(* update, lines 75-101: the steps before _output_to_dmx work on the         *)
(* engine's own fields; when one of them raises _output_to_dmx is not        *)
(* reached.  The except clause logs the error and returns; the result's exc  *)
(* is the error it logged, "none" for a tick without one.                    *)
update(st, chs, cfg, early_error, color, total_intensity) ==
    IF early_error THEN [st EXCEPT !.exc = "Exception"]
    ELSE output_to_dmx(st, chs, cfg, color, total_intensity)

EffectsUpdate ==
    \E early_error \in BOOLEAN, r, g, b \in TickLevels, ti \in TickIntensities :
        Apply(update(Cur, channels, lights_config, early_error, <<r, g, b>>, ti))

NextEffects == EffectsUpdate

SpecEffects == InitFixture /\ [][NextEffects]_vars

-----------------------------------------------------------------------------
(* The tempo estimator on the values it works with.  Beat times are          *)
(* time.time() readings in units of 1/TicksPerSecond seconds.                *)

TicksPerSecond == 4
MaxBeats == 9        \* beats followed
OnsetCapacity == 100 \* deque(maxlen=100)
RecentBeats == 8     \* [-8:]
SecondsPerMinute == 60

(* config['audio']['processing']['beat_detection'] *)
min_tempo == 60
max_tempo == 200

(* Distances between consecutive readings of the clock at detected beats; a  *)
(* wall clock that is set back gives a negative one.                         *)
BeatGaps == {-1, 1, 2, 5}

(* np.diff *)
diff(s) == [i \in 1..(Len(s) - 1) |-> s[i + 1] - s[i]]

(* the k-th smallest element of a non-empty sequence *)
SortedAt(s, k) ==
    CHOOSE v \in {s[i] : i \in DOMAIN s} :
        /\ Cardinality({i \in DOMAIN s : s[i] < v}) < k
        /\ k <= Cardinality({i \in DOMAIN s : s[i] <= v})

(* twice np.median: the middle element, or the mean of the two middle ones *)
median2(s) ==
    LET n == Len(s)
    IN  IF n % 2 = 1 THEN 2 * SortedAt(s, (n + 1) \div 2)
        ELSE SortedAt(s, n \div 2) + SortedAt(s, n \div 2 + 1)

(* lines 546-550: intervals above half the median and below twice the median *)
MutValidIntervalsInclusive(intervals) ==
    LET m2 == median2(intervals)
        Keep(x) == 4 * x >= m2 /\ x <= m2
    IN  SelectSeq(intervals, Keep)
valid_intervals(intervals) ==
    LET m2 == median2(intervals)
        Keep(x) == 4 * x > m2 /\ x < m2
    IN  SelectSeq(intervals, Keep)

RECURSIVE Sum(_)
Sum(s) == IF s = <<>> THEN 0 ELSE Head(s) + Sum(Tail(s))

(* np.clip on a fraction with positive denominator *)
MutClipLowerOnly(q, lo, hi) ==
    IF q[1] < lo * q[2] THEN <<lo, 1>> ELSE q
clip(q, lo, hi) ==
    IF q[1] < lo * q[2] THEN <<lo, 1>>
    ELSE IF q[1] > hi * q[2] THEN <<hi, 1>>
    ELSE q

(* lines 539-540 and 546-550: the usable intervals of the last 8 beats *)
usable_intervals(onsets) ==
    IF Len(onsets) < 2 THEN <<>>
    ELSE valid_intervals(diff(latest(onsets, RecentBeats)))

(* _estimate_tempo: the tempo after the call, given the one before.          *)
(* 60.0 / np.mean(valid) is 60 * TicksPerSecond * len(valid) / sum(valid).   *)
MutEstimateResetsTempo(onsets, old) ==
    IF Len(onsets) < 2 THEN old
    ELSE LET valid == usable_intervals(onsets)
         IN  IF Len(valid) > 0
             THEN clip(<<SecondsPerMinute * TicksPerSecond * Len(valid), Sum(valid)>>,
                       min_tempo, max_tempo)
             ELSE initial_tempo
estimate_tempo(onsets, old) ==
    IF Len(onsets) < 2 THEN old
    ELSE LET valid == usable_intervals(onsets)
         IN  IF Len(valid) > 0
             THEN clip(<<SecondsPerMinute * TicksPerSecond * Len(valid), Sum(valid)>>,
                       min_tempo, max_tempo)
             ELSE old

(* _detect_beats, lines 498 and 519-520: a beat is detected at current_time, *)
(* its time is appended and the tempo is estimated.                          *)
BeatOnset ==
    /\ Len(onset_deque) < MaxBeats
    /\ \E gap \in BeatGaps :
          LET current_time == IF onset_deque = <<>> THEN 0
                              ELSE onset_deque[Len(onset_deque)] + gap
          IN  /\ onset_deque' = extend(onset_deque, <<current_time>>, OnsetCapacity)
              /\ tempo' = estimate_tempo(onset_deque', tempo)
    /\ UNCHANGED <<NotAudio, captureVars, readerVars, features, onset_times, an_pc,
                   an_tick, window, tick_states, tickHist, volumeVars>>

InitTempo ==
    /\ InitFixtures(stage_config)
    /\ serial_connection = "none"
    /\ InitSerialIdle
    /\ InitFxIdle
    /\ InitStopIdle
    /\ InitAudioIdle

NextTempo == BeatOnset

SpecTempo == InitTempo /\ [][NextTempo]_vars

(* _detect_beats as one call.  The window is one second of audio; what is    *)
(* followed of it is whether librosa accepts it (a window with a NaN or an   *)
(* infinite sample makes onset_detect raise) and the onsets onset_detect     *)
(* finds in it, as times from the start of the window in 1/100 s.            *)
MaxBeatTicks == 3        \* analysis ticks followed
WindowHundredths == 100  \* len(audio_data) / self.sample_rate
RecentHundredths == 10   \* 0.1
OnsetPositions == {50, 90, 95}
TickGaps == {1, 2}
FullOnsetDeque == [k \in 1..OnsetCapacity |-> k - OnsetCapacity - 1]

(* line 499 *)
MutRecentBeatsWholeWindow(onsets) == onsets
recent_beats(onsets) == {t \in onsets : t > WindowHundredths - RecentHundredths}

(* _detect_beats, lines 477-528: the flag, the beat time, the onset deque    *)
(* and the tempo after the call.  Numeric features are held as the number of *)
(* the tick that assigned them.                                              *)
detect_beats(f, deque, old_tempo, finite, onsets, current_time, tick) ==
    IF ~finite
    THEN [f |-> [f EXCEPT !.beat_detected = FALSE], deque |-> deque, tempo |-> old_tempo]
    ELSE IF recent_beats(onsets) # {}
    THEN LET appended == extend(deque, <<current_time>>, OnsetCapacity)
         IN  [f |-> [f EXCEPT !.beat_detected = TRUE, !.last_beat_time = tick,
                              !.beat_strength = tick],
              deque |-> appended,
              tempo |-> estimate_tempo(appended, old_tempo)]
    ELSE [f |-> [f EXCEPT !.beat_detected = FALSE], deque |-> deque, tempo |-> old_tempo]

(* _processing_loop, line 424: one tick's _detect_beats *)
DetectBeats ==
    /\ an_tick < MaxBeatTicks
    /\ \E finite \in BOOLEAN, gap \in TickGaps :
       \E onsets \in IF finite THEN SUBSET OnsetPositions ELSE {{}} :
          LET current_time == clock + gap
              r == detect_beats(features, onset_deque, tempo, finite, onsets, current_time,
                                an_tick + 1)
          IN  /\ clock' = current_time
              /\ window' = [finite |-> finite, onsets |-> onsets]
              /\ features' = r.f
              /\ onset_deque' = r.deque
              /\ tempo' = r.tempo
    /\ an_tick' = an_tick + 1
    /\ UNCHANGED <<dmxVars, serialVars, stopVars, captureVars, readerVars, onset_times, an_pc,
                   tick_states, tickHist, volumeVars, fx_idx, fx_intensity, fx_call, call_pre,
                   engine, tick_pc, tick_features, engine_ops, mode_log, engine_call,
                   beat_log, palette_log>>

InitBeats ==
    /\ InitFixtures(stage_config)
    /\ serial_connection = "none"
    /\ InitSerialIdle
    /\ InitFxIdle
    /\ InitStopIdle
    /\ InitAudioFields
    /\ onset_deque \in {<<>>, FullOnsetDeque}
    /\ volume_config = default_volume_config
    /\ InitVolumeFields

NextBeats == DetectBeats

SpecBeats == InitBeats /\ [][NextBeats]_vars

(* _analyze_volume followed by value: the samples of a window are float32    *)
(* values as the capture source delivered them, NaN among them.              *)
MaxVolumeTicks == 3  \* windows followed
SampleValues == {<<-3, 1>>, <<0, 1>>, <<1, 1>>, <<4, 1>>, NaN}
Windows == [1..SampleRate -> SampleValues]

(* the integer part of the square root *)
isqrt(n) == CHOOSE r \in 0..n : r * r <= n /\ (r + 1) * (r + 1) > n

(* np.mean(audio_data ** 2) *)
RECURSIVE fsum(_)
fsum(s) == IF s = <<>> THEN <<0, 1>> ELSE fadd(Head(s), fsum(Tail(s)))
mean_square(audio_data) ==
    fmul(fsum([i \in DOMAIN audio_data |-> fmul(audio_data[i], audio_data[i])]),
         <<1, Len(audio_data)>>)

(* np.sqrt of a non-negative float, rounded down to a multiple of 1/den *)
fsqrt(x) == IF IsNaN(x) THEN NaN ELSE lowest(isqrt(x[1] * x[2]), x[2])

(* line 434: rms = np.sqrt(np.mean(audio_data ** 2)) *)
rms_of(audio_data) == fsqrt(mean_square(audio_data))

(* Python's max(a, b): b when b > a, otherwise a *)
py_max(a, b) == IF fgt(b, a) THEN b ELSE a

(* line 437: volume = max(rms * self.volume_gain, self.noise_floor) *)
volume_of(audio_data, cfg) == py_max(fmul(rms_of(audio_data), cfg.gain), cfg.noise_floor)

(* lines 440-441 *)
smooth(cfg, smoothed, volume) ==
    fadd(fmul(cfg.smoothing_factor, smoothed),
         fmul(fsub(<<1, 1>>, cfg.smoothing_factor), volume))

(* _analyze_volume(audio_data), lines 431-443 *)
AnalyzeVolume ==
    /\ volume_ticks < MaxVolumeTicks
    /\ \E audio_data \in Windows :
          LET volume == volume_of(audio_data, volume_config)
          IN  /\ smoothed_volume' = smooth(volume_config, smoothed_volume, volume)
              /\ current_volume' = volume
    /\ volume_ticks' = volume_ticks + 1
    /\ UNCHANGED <<NotAudio, captureVars, readerVars, features, onset_times, an_pc,
                   an_tick, window, tick_states, tickHist, tempoVars, volume_config>>

InitVolume ==
    /\ InitFixtures(stage_config)
    /\ serial_connection = "none"
    /\ InitSerialIdle
    /\ InitFxIdle
    /\ InitStopIdle
    /\ InitAudioFields
    /\ onset_deque = <<>>
    /\ volume_config \in VolumeConfigs
    /\ InitVolumeFields

NextVolume == AnalyzeVolume

SpecVolume == InitVolume /\ [][NextVolume]_vars

-----------------------------------------------------------------------------
(* The effects engine on its own fields.  Colours are triples of integers,   *)
(* intensities and speeds are floats, times are clock readings in seconds.   *)

(* int(): the fractional part is dropped *)
int_of(q) == IF q[1] >= 0 THEN q[1] \div q[2] ELSE -((-q[1]) \div q[2])

(* the keys of current_colors in dict order, the order of the configuration *)
light_order(e) ==
    LET InEngine(n) == n \in DOMAIN e.current_colors
    IN  SelectSeq([k \in 1..Len(lights_config) |-> lights_config[k].name], InEngine)

(* _apply_color_transitions, lines 458-460, for one component *)
transition(current, target, speed) ==
    LET moved == fadd(<<current, 1>>, fmul(<<target - current, 1>>, speed))
    IN  Max(0, Min(ByteMax, int_of(moved)))

(* _apply_color_transitions, lines 450-460 *)
apply_color_transitions(e) ==
    [e EXCEPT !.current_colors =
        [n \in DOMAIN e.current_colors |->
            [i \in 1..3 |-> transition(e.current_colors[n][i], e.target_colors[n][i],
                                       e.transition_speed)]]]

(* _output_to_dmx, line 464 *)
MutTotalIntensityUncapped(e) ==
    int_of(fmul(fadd(e.base_intensity, e.beat_intensity_boost), <<ByteMax, 1>>))
total_intensity_of(e) ==
    Min(ByteMax, int_of(fmul(fadd(e.base_intensity, e.beat_intensity_boost), <<ByteMax, 1>>)))

(* _output_to_dmx, lines 466-473: set_light_rgb for each light with its own  *)
(* colour; an exception leaves the loop                                      *)
RECURSIVE output_from(_, _, _, _, _)
output_from(st, chs, e, order, k) ==
    IF k > Len(order) \/ st.exc # "none" THEN st
    ELSE LET color == e.current_colors[order[k]]
         IN  output_from(set_light_rgb(st, chs, order[k], color[1], color[2], color[3],
                                       <<total_intensity_of(e)>>),
                         chs, e, order, k + 1)
output_colors(st, chs, e) == output_from(st, chs, e, light_order(e), 1)

(* DMXController.get_light_state, lines 220-232: the 'rgb' entry *)
get_light_state(st, light_name) ==
    IF light_name \notin DOMAIN st.lights THEN <<>>
    ELSE <<st.lights[light_name].current_rgb>>

(* Starting colours, targets and speeds of a transition; a target stays as   *)
(* it is while the mode handler does not assign it.                          *)
TransitionSpeeds == {<<1, 10>>, <<1, 2>>, <<4, 5>>, <<1, 1>>}
StartColors == {<<0, 0, 0>>, <<255, 100, 7>>, <<20, 255, 128>>}
HeldTargets == {<<0, 0, 0>>, <<255, 128, 9>>, <<12, 200, 255>>}

(* update, lines 95-98, with the targets held: _apply_color_transitions and  *)
(* _output_to_dmx                                                            *)
TransitionTick ==
    /\ tick_pc = "idle"
    /\ LET e == apply_color_transitions(engine)
           st == output_colors(Cur, channels, e)
       IN  /\ engine' = e
           /\ dmx_data' = st.dmx
           /\ lights' = st.lights
           /\ exc' = st.exc
    /\ UNCHANGED <<channels, serialVars, InitFxUnchanged, stopVars, audioVars>>

InitTransition ==
    /\ InitFixtures(stage_config)
    /\ serial_connection = "none"
    /\ InitSerialIdle
    /\ InitFxFields
    /\ InitEngineFields
    /\ \E speed \in TransitionSpeeds, start \in StartColors, target \in HeldTargets :
          engine = [initial_engine(LightNamesOf(stage_config), 0) EXCEPT
                       !.transition_speed = speed,
                       !.current_colors = [n \in DOMAIN @ |-> start],
                       !.target_colors = [n \in DOMAIN @ |-> target]]
    /\ InitStopIdle
    /\ InitAudioIdle

NextTransition == TransitionTick

SpecTransition == InitTransition /\ [][NextTransition]_vars

-----------------------------------------------------------------------------
(* The engine's modes: set_mode and set_palette from outside, update from    *)
(* the main loop.  update is followed in two steps, _update_effect_mode and  *)
(* the rest, both on the main-loop thread.                                   *)

MaxEngineOps == 3    \* calls made to the engine

(* the rig of the engine: two lights that take every write *)
engine_rig == SubSeq(lights_config, 1, 2)

(* modes of _change_effect_mode and valid_modes of set_mode, lines 124, 485 *)
modes == <<"auto", "pulse", "chase", "strobe", "fade", "ping_pong", "flash_storm">>
valid_modes == {modes[k] : k \in DOMAIN modes}

(* names a caller may pass *)
ModeArguments == {"strobe", "fade", "disco"}
PaletteArguments == {"calm", "neon"}

(* audio_features of a tick, and the time between two calls to the engine *)
FeatureSamples ==
    { [tempo |-> 150, smoothed_volume |-> <<7, 10>>, beat_detected |-> TRUE,
       beat_strength |-> <<1, 1>>],
      [tempo |-> 70, smoothed_volume |-> <<1, 5>>, beat_detected |-> FALSE,
       beat_strength |-> <<0, 1>>] }
ClockSteps == {1, 31}

(* what random.choice(modes) is followed for *)
RandomPicks == {"ping_pong", "flash_storm"}

(* colours the handlers of the other modes compute from the palette, the     *)
(* clock and the features: one colour for all lights, or another one for     *)
(* the lights after the first                                                *)
Shades(names) ==
    { [n \in names |-> <<255, 0, 0>>],
      [n \in names |-> IF n = lights_config[1].name THEN <<255, 0, 0>> ELSE <<0, 25, 76>>] }

(* set_mode, lines 483-491 *)
MutSetModeKeepsStartTime(e, mode, now) ==
    IF mode \in valid_modes
    THEN [e EXCEPT !.current_mode = mode]
    ELSE e
set_mode(e, mode, now) ==
    IF mode \in valid_modes
    THEN [e EXCEPT !.current_mode = mode, !.mode_start_time = now]
    ELSE e

(* set_palette, lines 475-481 *)
MutSetPaletteAcceptsAny(e, palette_name) ==
    [e EXCEPT !.current_palette = palette_name]
set_palette(e, palette_name) ==
    IF palette_name \in DOMAIN color_palettes
    THEN [e EXCEPT !.current_palette = palette_name]
    ELSE e

(* _change_effect_mode, lines 122-127; choice is what random.choice picks *)
mode_choices(e) == {m \in valid_modes : m # e.current_mode}
followed_choices(e) == mode_choices(e) \cap RandomPicks
MutChangeModeResetsScratch(e, choice, now) ==
    [e EXCEPT !.current_mode = choice, !.mode_start_time = now,
              !.scratch = initial_scratch]
change_effect_mode(e, choice, now) ==
    [e EXCEPT !.current_mode = choice, !.mode_start_time = now]

(* update, lines 79-80, and _update_effect_mode, lines 103-120; change is    *)
(* random.random() < 0.3                                                     *)
select_palette(e, audio_tempo) ==
    LET avg_volume == fmul(fsum(e.volume_history), <<1, Len(e.volume_history)>>)
    IN  IF audio_tempo > 140 /\ fgt(avg_volume, <<3, 5>>) THEN "energetic"
        ELSE IF audio_tempo < 80 /\ fgt(<<3, 10>>, avg_volume) THEN "calm"
        ELSE IF fgt(avg_volume, <<2, 5>>) THEN "warm"
        ELSE e.current_palette
mode_is_due(e, now) == now - e.mode_start_time > 30
MutUpdateEffectModeBlanksColors(e, audio_features, now, change, choice) ==
    LET e1 == [e EXCEPT
                  !.volume_history = extend(@, <<audio_features.smoothed_volume>>, 10),
                  !.beat_history = extend(@, <<audio_features.beat_detected>>, 5)]
        e2 == [e1 EXCEPT !.current_palette = select_palette(e1, audio_features.tempo)]
    IN  IF mode_is_due(e2, now) /\ change
        THEN [change_effect_mode(e2, choice, now) EXCEPT
                 !.current_colors = [n \in DOMAIN @ |-> <<0, 0, 0>>]]
        ELSE e2
update_effect_mode(e, audio_features, now, change, choice) ==
    LET e1 == [e EXCEPT
                  !.volume_history = extend(@, <<audio_features.smoothed_volume>>, 10),
                  !.beat_history = extend(@, <<audio_features.beat_detected>>, 5)]
        e2 == [e1 EXCEPT !.current_palette = select_palette(e1, audio_features.tempo)]
    IN  IF mode_is_due(e2, now) /\ change THEN change_effect_mode(e2, choice, now)
        ELSE e2

(* _update_base_intensity, lines 128-136 *)
update_base_intensity(e, audio_features) ==
    LET raw == fadd(fmul(audio_features.smoothed_volume,
                         effects_config.intensity_multiplier), <<1, 10>>)
    IN  [e EXCEPT !.base_intensity =
            IF fgt(<<1, 10>>, raw) THEN <<1, 10>>
            ELSE IF fgt(raw, <<1, 1>>) THEN <<1, 1>> ELSE raw]

(* _handle_beat_response, lines 138-155; the colours _trigger_color_change   *)
(* assigns in the modes auto, chase and pulse are assigned again by          *)
(* _update_colors in the same tick                                           *)
handle_beat_response(e, audio_features, now) ==
    IF audio_features.beat_detected
    THEN LET boost == fmul(audio_features.beat_strength,
                           effects_config.beat_response_strength)
         IN  [e EXCEPT !.last_beat_time = now,
                       !.beat_intensity_boost =
                           IF fgt(boost, <<1, 2>>) THEN <<1, 2>> ELSE boost]
    ELSE LET left == fsub(<<1, 1>>, <<now - e.last_beat_time, 3>>)
         IN  [e EXCEPT !.beat_intensity_boost =
                           fmul(@, IF fgt(left, <<0, 1>>) THEN left ELSE <<0, 1>>)]

(* _update_strobe_mode, lines 295-305; color is what random.choice picks *)
MutStrobeKeepsTargets(e, beat_detected, color) ==
    IF beat_detected
    THEN [e EXCEPT !.target_colors = [n \in DOMAIN @ |-> color]]
    ELSE e
update_strobe_mode(e, beat_detected, color) ==
    IF beat_detected
    THEN [e EXCEPT !.target_colors = [n \in DOMAIN @ |-> color]]
    ELSE [e EXCEPT !.target_colors = [n \in DOMAIN @ |-> <<0, 0, 0>>]]

(* _update_fade_mode, line 271 *)
fade_scratch(sc) == [sc EXCEPT !.color_cycle_position = @ + 1]

(* _update_ping_pong_mode, lines 316-334, with ping_pong_speed 2.0:          *)
(* 3/60 on a beat and 1/60 otherwise                                         *)
ping_pong_scratch(sc, beat_detected, num_lights, palette) ==
    LET position == sc.ping_pong_position
                        + sc.ping_pong_direction * (IF beat_detected THEN 3 ELSE 1)
        next_index == (sc.ping_pong_color_index + 1) % Len(palette)
    IN  IF position >= (num_lights - 1) * 60
        THEN [sc EXCEPT !.ping_pong_position = (num_lights - 1) * 60,
                        !.ping_pong_direction = -1,
                        !.ping_pong_color_index = next_index]
        ELSE IF position <= 0
        THEN [sc EXCEPT !.ping_pong_position = 0,
                        !.ping_pong_direction = 1,
                        !.ping_pong_color_index = next_index]
        ELSE [sc EXCEPT !.ping_pong_position = position]

(* _update_flash_storm_mode, lines 378-379, 383-384 and 418-419: the color   *)
(* timer starts again at 0.3 s, the random timer at 0.15 s between beats     *)
flash_storm_scratch(sc, beat_detected) ==
    [sc EXCEPT !.flash_color_timer = IF @ + 1 >= 18 THEN 0 ELSE @ + 1,
               !.flash_random_timer = IF ~beat_detected /\ @ + 1 >= 9 THEN 0 ELSE @ + 1]

(* _update_colors, lines 179-197: color is the palette colour random.choice  *)
(* picks in strobe mode, shades the colours the other handlers compute       *)
update_colors(e, audio_features, color, shades) ==
    LET palette == color_palettes[e.current_palette]
        num_lights == Cardinality(DOMAIN e.target_colors)
        beat == audio_features.beat_detected
    IN  CASE e.current_mode = "strobe" -> update_strobe_mode(e, beat, color)
          [] e.current_mode = "fade" ->
                [e EXCEPT !.scratch = fade_scratch(@), !.target_colors = shades]
          [] e.current_mode = "ping_pong" ->
                IF num_lights < 2 THEN e
                ELSE [e EXCEPT !.scratch = ping_pong_scratch(@, beat, num_lights, palette),
                               !.target_colors = shades]
          [] e.current_mode = "flash_storm" ->
                [e EXCEPT !.scratch = flash_storm_scratch(@, beat), !.target_colors = shades]
          [] OTHER -> [e EXCEPT !.target_colors = shades]

(* update, lines 85-98 *)
update_rest(e, audio_features, now, color, shades) ==
    apply_color_transitions(
        update_colors(handle_beat_response(update_base_intensity(e, audio_features),
                                           audio_features, now),
                      audio_features, color, shades))

EngineUnchanged == <<channels, serialVars, fx_idx, fx_intensity, fx_call, call_pre,
                     stopVars, audioVars>>
(* the engine of this part draws no palette colour outside strobe mode *)
ModesUnchanged == <<EngineUnchanged, palette_log>>

(* set_mode(mode) called from outside *)
SetMode ==
    /\ tick_pc = "idle" /\ engine_ops < MaxEngineOps
    /\ \E mode \in ModeArguments, step \in ClockSteps :
          LET now == clock + step
              e == set_mode(engine, mode, now)
          IN  /\ clock' = IF mode \in valid_modes THEN now ELSE clock
              /\ engine' = e
              /\ engine_call' = [op |-> "set_mode", argument |-> <<mode>>,
                                 outcome |-> "returned"]
              /\ mode_log' =
                    IF mode \in valid_modes
                    THEN [kind |-> "explicit", at |-> now,
                          last |-> IF mode_log = <<>> THEN <<>> ELSE <<mode_log.at>>]
                    ELSE mode_log
    /\ engine_ops' = engine_ops + 1
    /\ UNCHANGED <<ModesUnchanged, dmxVars, tick_pc, tick_features, beat_log>>

(* set_palette(palette_name) called from outside *)
SetPalette ==
    /\ tick_pc = "idle" /\ engine_ops < MaxEngineOps
    /\ \E palette_name \in PaletteArguments :
          /\ engine' = set_palette(engine, palette_name)
          /\ engine_call' = [op |-> "set_palette", argument |-> <<palette_name>>,
                             outcome |-> "returned"]
    /\ engine_ops' = engine_ops + 1
    /\ UNCHANGED <<ModesUnchanged, dmxVars, clock, tick_pc, tick_features, mode_log, beat_log>>

(* update(audio_features), lines 79-83 *)
UpdateMode ==
    /\ tick_pc = "idle" /\ engine_ops < MaxEngineOps
    /\ \E audio_features \in FeatureSamples, step \in ClockSteps, change \in BOOLEAN :
          \E choice \in IF mode_is_due(engine, clock + step) /\ change
                         THEN followed_choices(engine) ELSE {engine.current_mode} :
             LET now == clock + step
                 e == update_effect_mode(engine, audio_features, now, change, choice)
                 changed == mode_is_due(engine, now) /\ change
             IN  /\ clock' = now
                 /\ engine' = e
                 /\ tick_features' = <<audio_features>>
                 /\ engine_call' = [op |-> "update", argument |-> <<>>,
                                    outcome |-> "running"]
                 /\ mode_log' =
                       IF changed
                       THEN [kind |-> "randomized", at |-> now,
                             last |-> IF mode_log = <<>> THEN <<>> ELSE <<mode_log.at>>]
                       ELSE mode_log
    /\ tick_pc' = "colors"
    /\ engine_ops' = engine_ops + 1
    /\ UNCHANGED <<ModesUnchanged, dmxVars, beat_log>>

(* update, lines 85-101 *)
UpdateColors ==
    /\ tick_pc = "colors"
    /\ \E color \in IF engine.current_mode = "strobe" /\ tick_features[1].beat_detected
                      THEN {color_palettes[engine.current_palette][k] :
                               k \in DOMAIN color_palettes[engine.current_palette]}
                      ELSE {<<0, 0, 0>>},
          shades \in IF engine.current_mode = "strobe"
                     THEN {engine.target_colors}
                     ELSE Shades(DOMAIN engine.target_colors) :
          LET e == update_rest(engine, tick_features[1], clock, color, shades)
              st == output_colors(Cur, channels, e)
          IN  /\ engine' = e
              /\ dmx_data' = st.dmx
              /\ lights' = st.lights
              /\ exc' = st.exc
              /\ engine_call' = [engine_call EXCEPT !.outcome = "returned"]
              /\ beat_log' = IF tick_features[1].beat_detected
                             THEN <<e.beat_intensity_boost>> ELSE beat_log
    /\ tick_pc' = "idle"
    /\ tick_features' = <<>>
    /\ UNCHANGED <<ModesUnchanged, clock, engine_ops, mode_log>>

InitEngine ==
    /\ InitFixtures(engine_rig)
    /\ serial_connection = "none"
    /\ InitSerialIdle
    /\ InitFxFields
    /\ InitEngineFields
    /\ engine = initial_engine(LightNamesOf(engine_rig), 0)
    /\ InitStopIdle
    /\ InitAudioIdle

NextEngine ==
    \/ SetMode
    \/ SetPalette
    \/ UpdateMode
    \/ UpdateColors

SpecEngine == InitEngine /\ [][NextEngine]_vars

-----------------------------------------------------------------------------
(* The colours of a tick: update as one call, with _trigger_color_change     *)
(* and the handlers of the modes auto, pulse and chase computed from the     *)
(* palette, the clock and the features.                                      *)

MaxColourTicks == 2    \* update calls made

(* the 0-based index enumerate gives a light *)
index_of(e, n) == (CHOOSE k \in 1..Len(light_order(e)) : light_order(e)[k] = n) - 1

(* int(color[k] * factor) for the three components *)
scaled(color, factor) == [k \in 1..3 |-> int_of(fmul(<<color[k], 1>>, factor))]

(* _trigger_color_change, lines 157-177: picks is what random.choice gives   *)
(* light by light in auto mode, pick what it gives once in pulse mode, both  *)
(* as positions in the palette                                               *)
trigger_color_change(e, pick, picks, now) ==
    LET palette == color_palettes[e.current_palette]
    IN  CASE e.current_mode = "auto" ->
                [e EXCEPT !.target_colors = [n \in DOMAIN @ |-> palette[picks[n]]]]
          [] e.current_mode = "chase" ->
                [e EXCEPT !.target_colors =
                    [n \in DOMAIN @ |->
                        palette[((index_of(e, n) + now * 2) % Len(palette)) + 1]]]
          [] e.current_mode = "pulse" ->
                [e EXCEPT !.target_colors = [n \in DOMAIN @ |-> palette[pick]]]
          [] OTHER -> e

(* _update_auto_mode, lines 199-231 *)
update_auto_mode(e, freq_powers) ==
    LET max_power == py_max(py_max(py_max(freq_powers.bass, freq_powers.mid),
                                   freq_powers.treble), <<1, 10>>)
        bass_ratio == fdiv(freq_powers.bass, max_power)
        mid_ratio == fdiv(freq_powers.mid, max_power)
        treble_ratio == fdiv(freq_powers.treble, max_power)
        colour(i) == IF i % 3 = 0 THEN scaled(<<255, 0, 0>>, bass_ratio)
                     ELSE IF i % 3 = 1 THEN scaled(<<0, 255, 0>>, mid_ratio)
                     ELSE scaled(<<0, 0, 255>>, treble_ratio)
    IN  [n \in DOMAIN e.target_colors |-> colour(index_of(e, n))]

(* _update_pulse_mode, lines 233-246 *)
update_pulse_mode(e, palette, beat_detected, now) ==
    LET beat_intensity == IF beat_detected THEN <<1, 1>> ELSE <<3, 10>>
        color_index == floor_of(fmod(<<now, 10>>, Len(palette)))
    IN  [n \in DOMAIN e.target_colors |-> scaled(palette[color_index + 1], beat_intensity)]

(* _update_chase_mode, lines 248-266 *)
update_chase_mode(e, palette, audio_tempo, now) ==
    LET num_lights == Cardinality(DOMAIN e.target_colors)
        chase_speed == <<audio_tempo, 120>>
        position(i) == fmod(fadd(fmul(<<now, 1>>, chase_speed), <<i, 1>>), num_lights)
        color_index(i) == floor_of(position(i)) % Len(palette)
        fade(i) == fsub(<<1, 1>>,
                        fmul(fabs(fsub(fmod(position(i), 1), <<1, 2>>)), <<2, 1>>))
    IN  [n \in DOMAIN e.target_colors |->
            scaled(palette[color_index(index_of(e, n)) + 1], fade(index_of(e, n)))]

(* the target colours _update_colors leaves in the modes computed here;      *)
(* shades stands for those of the other modes                                *)
mode_targets(e, audio_features, now, shades) ==
    LET palette == color_palettes[e.current_palette]
    IN  CASE e.current_mode = "auto" -> update_auto_mode(e, audio_features.frequency_powers)
          [] e.current_mode = "pulse" ->
                update_pulse_mode(e, palette, audio_features.beat_detected, now)
          [] e.current_mode = "chase" ->
                update_chase_mode(e, palette, audio_features.tempo, now)
          [] OTHER -> shades

(* _handle_beat_response with its colour change, lines 139-155; trigger is   *)
(* random.random() < color_change_probability                                *)
beat_response_with_trigger(e, audio_features, now, trigger, pick, picks) ==
    LET e1 == handle_beat_response(e, audio_features, now)
    IN  IF audio_features.beat_detected /\ trigger
        THEN trigger_color_change(e1, pick, picks, now)
        ELSE e1

(* update, lines 85-95, after _update_effect_mode *)
update_colours_of_tick(e, audio_features, now, trigger, pick, picks, color, shades) ==
    LET e1 == beat_response_with_trigger(update_base_intensity(e, audio_features),
                                         audio_features, now, trigger, pick, picks)
    IN  apply_color_transitions(
            update_colors(e1, audio_features, color,
                          mode_targets(e1, audio_features, now, shades)))

(* features of a tick, with the band powers *)
ColourFeatures ==
    { [tempo |-> 150, smoothed_volume |-> <<7, 10>>, beat_detected |-> TRUE,
       beat_strength |-> <<1, 1>>,
       frequency_powers |-> [bass |-> <<2, 1>>, mid |-> <<1, 1>>, treble |-> <<0, 1>>]],
      [tempo |-> 120, smoothed_volume |-> <<1, 2>>, beat_detected |-> TRUE,
       beat_strength |-> <<1, 4>>,
       frequency_powers |-> [bass |-> <<0, 1>>, mid |-> <<0, 1>>, treble |-> <<0, 1>>]],
      [tempo |-> 70, smoothed_volume |-> <<1, 5>>, beat_detected |-> FALSE,
       beat_strength |-> <<0, 1>>,
       frequency_powers |-> [bass |-> <<1, 1>>, mid |-> <<3, 1>>, treble |-> <<1, 2>>]] }
ColourSteps == {1, 12}
ColourModes == {"auto", "pulse", "chase", "strobe"}
ColourPalettes == {"energetic", "warm"}

(* update(audio_features), lines 75-101 *)
ColourTick ==
    /\ tick_pc = "idle" /\ engine_ops < MaxColourTicks
    /\ \E audio_features \in ColourFeatures, step \in ColourSteps, change \in BOOLEAN :
          LET now == clock + step
              due == mode_is_due(engine, now) /\ change
          IN  \E choice \in IF due THEN followed_choices(engine) ELSE {engine.current_mode} :
                 LET e1 == update_effect_mode(engine, audio_features, now, change, choice)
                     palette == color_palettes[e1.current_palette]
                     beat == audio_features.beat_detected
                     names == DOMAIN e1.target_colors
                 IN  \E trigger \in IF beat THEN BOOLEAN ELSE {FALSE} :
                     \E picks \in IF trigger /\ e1.current_mode = "auto"
                                  THEN [names -> DOMAIN palette] ELSE {[n \in names |-> 1]},
                        pick \in IF trigger /\ e1.current_mode = "pulse"
                                 THEN DOMAIN palette ELSE {1},
                        color \in IF e1.current_mode = "strobe" /\ beat
                                  THEN {palette[k] : k \in DOMAIN palette} ELSE {<<0, 0, 0>>},
                        shades \in IF e1.current_mode \in {"auto", "pulse", "chase", "strobe"}
                                   THEN {e1.target_colors} ELSE Shades(names) :
                           LET e2 == beat_response_with_trigger(
                                         update_base_intensity(e1, audio_features),
                                         audio_features, now, trigger, pick, picks)
                               e == update_colours_of_tick(e1, audio_features, now, trigger,
                                                           pick, picks, color, shades)
                               st == output_colors(Cur, channels, e)
                           IN  /\ clock' = now
                               /\ engine' = e
                               /\ dmx_data' = st.dmx
                               /\ lights' = st.lights
                               /\ exc' = st.exc
                               /\ palette_log' =
                                     IF trigger /\ e1.current_mode \in {"auto", "chase", "pulse"}
                                     THEN e2.target_colors ELSE <<>>
                               /\ beat_log' = IF beat THEN <<e.beat_intensity_boost>>
                                              ELSE beat_log
                               /\ engine_call' = [op |-> "update", argument |-> <<>>,
                                                  outcome |-> "returned"]
                               /\ mode_log' =
                                     IF due
                                     THEN [kind |-> "randomized", at |-> now,
                                           last |-> IF mode_log = <<>> THEN <<>>
                                                    ELSE <<mode_log.at>>]
                                     ELSE mode_log
    /\ engine_ops' = engine_ops + 1
    /\ UNCHANGED <<EngineUnchanged, tick_pc, tick_features>>

InitColours ==
    /\ InitFixtures(engine_rig)
    /\ serial_connection = "none"
    /\ InitSerialIdle
    /\ InitFxFields
    /\ InitEngineFields
    /\ \E mode \in ColourModes, palette_name \in ColourPalettes :
          engine = set_palette(set_mode(initial_engine(LightNamesOf(engine_rig), 0), mode, 0),
                               palette_name)
    /\ InitStopIdle
    /\ InitAudioIdle

NextColours == ColourTick

SpecColours == InitColours /\ [][NextColours]_vars

-----------------------------------------------------------------------------
(* Flash storm: update as one call with _update_flash_storm_mode computed    *)
(* from the targets, the timers and the features.                            *)

MaxStormTicks == 5    \* update calls made

(* a recolouring gives some lights a colour of the palette each *)
Recolourings(names, palette) ==
    UNION {[S -> {palette[k] : k \in DOMAIN palette}] : S \in SUBSET names}
recoloured(targets, chosen) ==
    [n \in DOMAIN targets |-> IF n \in DOMAIN chosen THEN chosen[n] ELSE targets[n]]

(* _update_flash_storm_mode, lines 373-448.  timed is what lines 387-391     *)
(* choose when the colour timer is due, on_beat what lines 411-415 choose on *)
(* a beat, between_beats what lines 422-428 choose when the random timer is  *)
(* due (no light in 60% of the cases).  The timers count ticks of 1/60 s.    *)
flash_storm_targets(e, audio_features, timed, on_beat, between_beats) ==
    LET color_due == e.scratch.flash_color_timer + 1 >= 18
        random_due == e.scratch.flash_random_timer + 1 >= 9
        t1 == IF color_due THEN recoloured(e.target_colors, timed) ELSE e.target_colors
        intensity_boost == fadd(<<1, 1>>, fmul(audio_features.beat_strength, <<1, 2>>))
        boosted == [n \in DOMAIN t1 |->
                       [k \in 1..3 |-> Min(ByteMax, scaled(t1[n], intensity_boost)[k])]]
        t2 == IF audio_features.beat_detected THEN recoloured(boosted, on_beat)
              ELSE IF random_due THEN recoloured(t1, between_beats)
              ELSE t1
        base_intensity == fadd(<<2, 5>>, fmul(audio_features.smoothed_volume, <<3, 5>>))
        tempo_factor == IF fgt(<<audio_features.tempo, 120>>, <<6, 5>>) THEN <<6, 5>>
                        ELSE lowest(audio_features.tempo, 120)
        final_intensity == fmul(base_intensity, tempo_factor)
    IN  [n \in DOMAIN t2 |-> scaled(t2[n], final_intensity)]

(* the lights a tick recolours, with the colours it gives them *)
recoloured_lights(e, audio_features, timed, on_beat, between_beats) ==
    LET color_due == e.scratch.flash_color_timer + 1 >= 18
        random_due == e.scratch.flash_random_timer + 1 >= 9
        first == IF color_due THEN timed ELSE <<>>
        second == IF audio_features.beat_detected THEN on_beat
                  ELSE IF random_due THEN between_beats ELSE <<>>
    IN  [n \in DOMAIN first \cup DOMAIN second |->
            IF n \in DOMAIN second THEN second[n] ELSE first[n]]

StormFeatures ==
    { [tempo |-> 150, smoothed_volume |-> <<7, 10>>, beat_detected |-> TRUE,
       beat_strength |-> <<1, 1>>],
      [tempo |-> 70, smoothed_volume |-> <<1, 5>>, beat_detected |-> FALSE,
       beat_strength |-> <<0, 1>>] }

(* timers of an engine new in flash storm mode, and of one that has spent    *)
(* 17 ticks without a beat in it                                             *)
StormTimers == {<<0, 0>>, <<17, 8>>}

(* update(audio_features), lines 75-101, in flash storm mode *)
StormTick ==
    /\ tick_pc = "idle" /\ engine_ops < MaxStormTicks
    /\ \E audio_features \in StormFeatures :
          LET now == clock + 1
              e1 == update_effect_mode(engine, audio_features, now, FALSE, engine.current_mode)
              palette == color_palettes[e1.current_palette]
              names == DOMAIN e1.target_colors
              beat == audio_features.beat_detected
              color_due == e1.scratch.flash_color_timer + 1 >= 18
              random_due == e1.scratch.flash_random_timer + 1 >= 9
              half == Max(1, Cardinality(names) \div 2)
          IN  \E timed \in IF color_due
                           THEN {c \in Recolourings(names, palette) : DOMAIN c # {}}
                           ELSE {<<>>},
                 on_beat \in IF beat
                             THEN {c \in Recolourings(names, palette) :
                                      Cardinality(DOMAIN c) \in 1..half}
                             ELSE {<<>>},
                 between_beats \in IF ~beat /\ random_due
                                   THEN {c \in Recolourings(names, palette) :
                                            Cardinality(DOMAIN c) <= 1}
                                   ELSE {<<>>} :
                    LET shades == flash_storm_targets(e1, audio_features, timed, on_beat,
                                                      between_beats)
                        e == update_colours_of_tick(e1, audio_features, now, FALSE, 1,
                                                    [n \in names |-> 1], <<0, 0, 0>>, shades)
                        st == output_colors(Cur, channels, e)
                    IN  /\ clock' = now
                        /\ engine' = e
                        /\ dmx_data' = st.dmx
                        /\ lights' = st.lights
                        /\ exc' = st.exc
                        /\ palette_log' = recoloured_lights(e1, audio_features, timed,
                                                            on_beat, between_beats)
                        /\ beat_log' = IF beat THEN <<e.beat_intensity_boost>> ELSE beat_log
                        /\ engine_call' = [op |-> "update", argument |-> <<>>,
                                           outcome |-> "returned"]
    /\ engine_ops' = engine_ops + 1
    /\ UNCHANGED <<EngineUnchanged, tick_pc, tick_features, mode_log>>

InitStorm ==
    /\ InitFixtures(engine_rig)
    /\ serial_connection = "none"
    /\ InitSerialIdle
    /\ InitFxFields
    /\ InitEngineFields
    /\ \E timers \in StormTimers :
          engine = [set_mode(initial_engine(LightNamesOf(engine_rig), 0), "flash_storm", 0)
                       EXCEPT !.scratch.flash_color_timer = timers[1],
                              !.scratch.flash_random_timer = timers[2]]
    /\ InitStopIdle
    /\ InitAudioIdle

NextStorm == StormTick

SpecStorm == InitStorm /\ [][NextStorm]_vars

MaxPingPongTicks == 4    \* calls made to the engine in ping pong mode

PingPongFeatures ==
    { [tempo |-> 150, smoothed_volume |-> <<7, 10>>, beat_detected |-> TRUE,
       beat_strength |-> <<1, 1>>],
      [tempo |-> 100, smoothed_volume |-> <<7, 20>>, beat_detected |-> FALSE,
       beat_strength |-> <<0, 1>>],
      [tempo |-> 70, smoothed_volume |-> <<1, 5>>, beat_detected |-> FALSE,
       beat_strength |-> <<0, 1>>] }

(* ticks an engine has spent in ping pong mode, without a beat, at tempo 100 *)
(* and volume 0.35                                                           *)
PingPongAges == {0, 59}

(* the engine after set_mode('ping_pong') and age such ticks: no palette is  *)
(* selected at that tempo and volume (lines 109-114), the wave moves by 1/60 *)
(* a tick (lines 320-324) and the histories hold the last ten volumes and    *)
(* the last five beat flags (lines 79-80)                                    *)
aged_ping_pong(names, age) ==
    [set_mode(initial_engine(names, 0), "ping_pong", 0) EXCEPT
        !.scratch.ping_pong_position = age,
        !.volume_history = [k \in 1..Min(age, 10) |-> <<7, 20>>],
        !.beat_history = [k \in 1..Min(age, 5) |-> FALSE],
        !.base_intensity = IF age = 0 THEN @ ELSE <<9, 20>>]

(* _update_ping_pong_mode, lines 336-337: palette[self.ping_pong_color_index] *)
(* raises IndexError when the index is not one of the palette                *)
ping_pong_raises(sc, palette) == sc.ping_pong_color_index >= Len(palette)

(* update(audio_features), lines 75-101, in ping pong mode with two lights   *)
(* or more: the IndexError of line 337 leaves _update_colors before a target *)
(* colour is assigned and is caught at line 100, after the histories, the    *)
(* palette, the intensities and the wave were updated; shades are the        *)
(* colours of the wave, lines 340-371                                        *)
ping_pong_tick(e, audio_features, now, shades) ==
    LET e1 == update_effect_mode(e, audio_features, now, FALSE, e.current_mode)
        e2 == handle_beat_response(update_base_intensity(e1, audio_features),
                                   audio_features, now)
        palette == color_palettes[e2.current_palette]
        sc == ping_pong_scratch(e2.scratch, audio_features.beat_detected,
                                Cardinality(DOMAIN e2.target_colors), palette)
        e3 == [e2 EXCEPT !.scratch = sc]
    IN  IF ping_pong_raises(sc, palette)
        THEN [engine |-> e3, outcome |-> "caught"]
        ELSE [engine |-> apply_color_transitions([e3 EXCEPT !.target_colors = shades]),
              outcome |-> "returned"]

PingPongTick ==
    /\ tick_pc = "idle" /\ engine_ops < MaxPingPongTicks
    /\ engine.current_mode = "ping_pong"
    /\ \E audio_features \in PingPongFeatures, shades \in Shades(DOMAIN engine.target_colors) :
          LET now == clock + 1
              r == ping_pong_tick(engine, audio_features, now, shades)
              st == IF r.outcome = "returned" THEN output_colors(Cur, channels, r.engine)
                    ELSE Cur
          IN  /\ clock' = now
              /\ engine' = r.engine
              /\ dmx_data' = st.dmx
              /\ lights' = st.lights
              /\ exc' = st.exc
              /\ beat_log' = IF audio_features.beat_detected
                             THEN <<r.engine.beat_intensity_boost>> ELSE beat_log
              /\ engine_call' = [op |-> "update", argument |-> <<>>, outcome |-> r.outcome]
    /\ engine_ops' = engine_ops + 1
    /\ UNCHANGED <<ModesUnchanged, tick_pc, tick_features, mode_log>>

InitPingPong ==
    /\ InitFixtures(engine_rig)
    /\ serial_connection = "none"
    /\ InitSerialIdle
    /\ InitFxFields
    /\ tick_pc = "idle"
    /\ tick_features = <<>>
    /\ engine_ops = 0
    /\ mode_log = <<>>
    /\ engine_call = <<>>
    /\ beat_log = <<>>
    /\ palette_log = <<>>
    /\ \E age \in PingPongAges :
          /\ clock = age
          /\ engine = aged_ping_pong(LightNamesOf(engine_rig), age)
    /\ InitStopIdle
    /\ InitAudioIdle

NextPingPong ==
    \/ PingPongTick
    \/ SetPalette

SpecPingPong == InitPingPong /\ [][NextPingPong]_vars

(* Construction of one fixture from any channel table: keys may be missing   *)
(* and numbers may be None, below 1 or above 512.                            *)
ChannelKeys == {"red", "green", "blue", "intensity"}
ChannelNumbers == {NoneCh, -1, 1, UniverseSize, UniverseSize + 1}
ChannelTables == UNION {[K -> ChannelNumbers] : K \in SUBSET ChannelKeys}

par_config(table) == << [name |-> "par1", dmx_address |-> 1, channels |-> table] >>

(* ParLight.__init__ up to line 258: self.channels = config['channels'];     *)
(* the fixture is not yet in DMXController.lights.                           *)
InitConstruct ==
    /\ dmx_data = [i \in 0..(UniverseSize - 1) |-> 0]
    /\ lights = [n \in {} |-> <<>>]
    /\ \E table \in ChannelTables : channels = [n \in {"par1"} |-> table]
    /\ exc = "none"
    /\ serial_connection = "none"
    /\ InitSerialIdle
    /\ InitFxIdle
    /\ InitStopIdle
    /\ InitAudioIdle

(* lines 260-265 and _initialize_lights line 52: state, validation, and the  *)
(* fixture is stored under its name                                          *)
ConstructParLight ==
    /\ DOMAIN lights = {}
    /\ lights' = initialize_lights(par_config(channels["par1"]))
    /\ channels' = initialize_channels(par_config(channels["par1"]))
    /\ UNCHANGED <<dmx_data, exc, serialVars, fxVars, stopVars, audioVars>>

NextConstruct == ConstructParLight

SpecConstruct == InitConstruct /\ [][NextConstruct]_vars

(* The output thread alone with the stop sequence: no effects tick runs.     *)
NextOutput ==
    \/ Start
    \/ OutTop \/ OutSend \/ OutBreakOn \/ OutBreakOff \/ OutWrite
    \/ OutStamp \/ OutCount
    \/ StopBegin \/ StopBlackoutStep \/ StopSleep \/ StopFlag \/ StopJoin \/ StopClose

SpecOutput == InitDmx /\ [][NextOutput]_vars

-----------------------------------------------------------------------------
(* Claims about the fixture setters, checked under SpecFixture               *)

(* C7: after any sequence of set_rgb, set_intensity, set_strobe and blackout *)
(* calls with arbitrary integer arguments, every one of the 512 Universe     *)
(* values is within 0..255.                                                  *)
C7_UniverseInByteRange ==
    /\ DOMAIN dmx_data = 0..(UniverseSize - 1)
    /\ \A i \in DOMAIN dmx_data : dmx_data[i] \in 0..ByteMax

(* Calls with arguments below 0 and above 255 have written par1's colour and *)
(* strobe channels and par2's green channel.                                 *)
C7_Witness ==
    /\ dmx_data[0] = 255 /\ dmx_data[1] = 0 /\ dmx_data[2] = 100
    /\ dmx_data[3] = 255 /\ dmx_data[4] = 255
    /\ dmx_data[511] = 255

(* Universe offsets of the channels light n has. *)
PresentOffsets(n) ==
    IF n \in DOMAIN channels
    THEN {channels[n][k] - 1 : k \in {j \in DOMAIN channels[n] : channels[n][j] # NoneCh}}
    ELSE {}

(* d with the offsets in S put back to their values in old. *)
RECURSIVE Restore(_, _, _)
Restore(d, old, S) ==
    IF S = {} THEN d
    ELSE LET o == CHOOSE x \in S : TRUE
         IN  Restore([d EXCEPT ![o] = old[o]], old, S \ {o})

(* The call that took the Universe from dmx_data to d wrote at most the      *)
(* offsets of n's own channels, and the start code is still 0.               *)
OnlyTouches(n, d) ==
    /\ Restore(d, dmx_data, PresentOffsets(n)) = dmx_data
    /\ Frame(d)[0] = 0

(* Channel number channels[n][key], when n has it, is that byte of the frame. *)
FrameByteIs(n, key, d, v) ==
    (n \in DOMAIN channels /\ key \in DOMAIN channels[n] /\ channels[n][key] # NoneCh)
        => Frame(d)[channels[n][key]] = v

(* C8: a set_rgb, set_intensity or set_strobe call on a fixture changes only *)
(* the Universe offsets channel-1 of that fixture's own present channels, so *)
(* that channel number c is byte c of the transmitted frame, leaves every    *)
(* other Universe value unchanged and never changes the start-code byte.     *)
(* Stated of every call that can be made in the current state.               *)
C8_SettersTouchOwnChannels ==
    /\ \A n \in CallNames, c \in RgbCalls :
          LET r == set_light_rgb(Cur, channels, n, c.rgb[1], c.rgb[2], c.rgb[3], c.intensity)
          IN  /\ OnlyTouches(n, r.dmx)
              /\ FrameByteIs(n, "red", r.dmx, Clamp(c.rgb[1]))
              /\ FrameByteIs(n, "green", r.dmx, Clamp(c.rgb[2]))
              /\ FrameByteIs(n, "blue", r.dmx, Clamp(c.rgb[3]))
              /\ Given(c.intensity) =>
                     FrameByteIs(n, "intensity", r.dmx, Clamp(c.intensity[1]))
    /\ \A n \in CallNames, i \in Integers3 :
          LET r == set_light_intensity(Cur, channels, n, i)
          IN  OnlyTouches(n, r.dmx) /\ FrameByteIs(n, "intensity", r.dmx, Clamp(i))
    /\ \A n \in CallNames, v \in Integers3 :
          LET r == set_light_strobe(Cur, channels, n, v)
          IN  OnlyTouches(n, r.dmx) /\ FrameByteIs(n, "strobe", r.dmx, Clamp(v))

(* par2's green channel 512 (the last frame byte) and par1's strobe channel  *)
(* 5 have been written, and nothing outside the fixtures' channels has.      *)
C8_Witness ==
    /\ dmx_data[511] = 100 /\ Frame(dmx_data)[512] = 100
    /\ dmx_data[4] = 255 /\ Frame(dmx_data)[5] = 255
    /\ dmx_data[5] = 0 /\ dmx_data[509] = 0

-----------------------------------------------------------------------------
(* Claims about the transmitter, checked under SpecDmx                       *)

(* The values a frame carries for the channels in K of light n. *)
FrameValues(f, n, K) == [k \in K |-> f[channels[n][k]]]

(* C1: under every interleaving of the output loop with the fixture writes   *)
(* of the effects tick, each frame handed to the sink is a Universe state    *)
(* from before or after a whole set_rgb call: no frame holds some of a       *)
(* call's red/green/blue/intensity values together with the previous values  *)
(* of that call's other channels.                                            *)
C1_NoTornFrame ==
    (wire # <<>> /\ snap.call # <<>>) =>
        LET c == snap.call
            seen == FrameValues(wire, c.light, DOMAIN c.old)
        IN  seen = c.old \/ seen = c.new

(* C6: every frame written to the sink is exactly 513 bytes long: the start  *)
(* code 0x00 followed by the 512 Universe values (as they were when the      *)
(* frame was built).                                                         *)
C6_FrameIs513Bytes ==
    wire # <<>> =>
        /\ DOMAIN wire = 0..UniverseSize
        /\ Cardinality(DOMAIN wire) = 513
        /\ wire[0] = 0
        /\ [i \in 0..(UniverseSize - 1) |-> wire[i + 1]] = snap.dmx

(* A frame written after fixture writes: it carries par1's red and strobe.   *)
C6_Witness ==
    /\ wire # <<>>
    /\ wire[1] = 255 /\ wire[5] = 255
    /\ frame_count = 0 /\ out_pc = "stamp"

(* C9: for every frame sent with a sink attached the line events of its      *)
(* cycle are: break asserted, break released, then exactly one write of the  *)
(* frame; the break is not asserted at the write nor when the cycle ends.    *)
C9_BreakThenWrite ==
    (\E k \in DOMAIN line_events : line_events[k] = "write") =>
        /\ line_events = <<"break_on", "break_off", "write">>
        /\ break_condition = FALSE

(* A cycle that sent a frame has ended. *)
C9_Witness ==
    /\ out_pc = "top" /\ frame_count = 1
    /\ serial_connection = "open"
    /\ line_events = <<"break_on", "break_off", "write">>
    /\ break_condition = FALSE

(* C10: on stop the transmitter sends an all-zero frame before the sink is   *)
(* closed: the last frame written before the close has all 512 channel       *)
(* values equal to 0.  Stated of the stops in which a frame built after the  *)
(* blackout was written.                                                     *)
C10_LastFrameBlack ==
    (serial_connection = "closed" /\ sink_log.after_blackout) => sink_log.last_zero

-----------------------------------------------------------------------------
(* Claims about the audio processor                                          *)

(* C2: every snapshot returned by get_audio_features consists of the values  *)
(* of one single analysis tick (or of the constructor): under any            *)
(* interleaving with the analysis loop it equals the features as they stood  *)
(* after some whole tick, never the volume of one tick with the band         *)
(* energies, beat flag, beat strength or tempo of another.  Under            *)
(* SpecFeatures.                                                             *)
C2_SnapshotFromOneTick ==
    features_out # <<>> => features_out \in tick_states

(* C3: a capture callback that arrives while the buffer holds more than 90%  *)
(* of its capacity leaves the buffer unchanged and raises nothing; one that  *)
(* arrives below that threshold appends its whole chunk.  Under SpecAudio.   *)
C3_PushDropsAbove90 ==
    cb # <<>> =>
        LET n == Len(cb.chunk)
            m == Len(audio_buffer)
        IN  /\ cb.result # "raised"
            /\ Len(cb.before) * 10 > Capacity * 9 => audio_buffer = cb.before
            /\ Len(cb.before) * 10 < Capacity * 9 =>
                    m >= n /\ SubSeq(audio_buffer, m - n + 1, m) = cb.chunk

(* The numbers the processor exposes through get_audio_features and          *)
(* get_status.                                                               *)
Exposed ==
    [volume |-> features.current_volume, smoothed_volume |-> features.smoothed_volume,
     beat_strength |-> features.beat_strength, tempo |-> features.tempo,
     bass |-> features.frequency_powers.bass, mid |-> features.frequency_powers.mid,
     treble |-> features.frequency_powers.treble, last_beat |-> features.last_beat_time,
     sample_rate |-> SampleRate]

(* C4: every dropped push increments an exposed dropped-push counter by      *)
(* exactly one and every accepted push leaves it unchanged: some exposed     *)
(* number goes up by one in a callback that drops its chunk and stays as it  *)
(* is in a callback that appends it.  Under SpecAudio.                       *)
C4_DropCounterIncrements ==
    [][arrived' # arrived =>
          \E k \in DOMAIN Exposed :
              Exposed'[k] = IF cb'.result = "dropped" THEN Exposed[k] + 1 ELSE Exposed[k]]_vars

(* C5: whenever the analysis loop takes a window, the window is the n most   *)
(* recent samples the capture callback has put into the buffer up to that    *)
(* moment (n = sample_rate, one second), in arrival order; no window is      *)
(* taken while fewer than n samples have been put in.  Under SpecAudio.      *)
C5_WindowIsLatest ==
    window # <<>> =>
        /\ window.pushed_len >= SampleRate
        /\ window.data = SubSeq(pushed, window.pushed_len - SampleRate + 1, window.pushed_len)

(* A window taken after the buffer has discarded its oldest samples, when    *)
(* some delivered chunk was not put into the buffer.                         *)
C5_Witness ==
    /\ window # <<>>
    /\ window.pushed_len > Capacity
    /\ Len(window.data) = SampleRate
    /\ window.data[SampleRate] = pushed[window.pushed_len]
    /\ arrived > window.pushed_len

-----------------------------------------------------------------------------
(* Claims about shutdown and the output loop                                 *)

(* C11: once stop is requested the analysis loop and the output loop each    *)
(* see the cleared flag at the top of their next iteration and exit, so      *)
(* AudioProcessor.stop and DMXController.stop return (their joins complete)  *)
(* in every execution, also when loop iterations fail.  Under SpecStop.      *)
C11_StopReturns ==
    /\ (stop_pc = "audio_stop") ~> (stop_pc = "blackout" /\ an_pc \in {"idle", "exited"})
    /\ (stop_pc = "dmx_stop") ~> (stop_pc = "done" /\ out_pc \in {"idle", "exited"})

(* stop() has returned after both loops ran; the last analysis tick and an   *)
(* output cycle had failed.                                                  *)
C11_Witness ==
    /\ stop_pc = "done"
    /\ out_pc = "exited" /\ an_pc = "exited"
    /\ an_failed
    /\ serial_connection = "closed" /\ frame_count > last_update_time

(* C12: with no serial sink attached (the serial module missing, or the      *)
(* port failed to open, which leaves construction successful) every output   *)
(* cycle updates the last-update timestamp and increments frame_count by     *)
(* exactly one, and nothing is done on a serial line.  Under SpecOutput.        *)
C12_SimulationCycle ==
    serial_connection = "none" =>
        /\ last_update_time = frame_count + (IF out_pc = "count" THEN 1 ELSE 0)
        /\ frame_count <= MaxFrames
        /\ line_events = <<>> /\ wire = <<>> /\ frame_data = <<>>
        /\ ~break_condition
        /\ sink_log = [last_zero |-> TRUE, after_blackout |-> FALSE]

(* The output loop has run its cycles without a sink. *)
C12_Witness ==
    /\ serial_connection = "none"
    /\ frame_count = MaxFrames /\ last_update_time = MaxFrames
    /\ out_pc = "top"

(* C13: a failure of a serial operation is caught within the cycle it        *)
(* happens in: the output loop does not end because of it (it ends only      *)
(* once the running flag is cleared) and, while the flag is set, it comes    *)
(* back to send a frame on a later cycle.  Under SpecOutput.                 *)
C13_FailureKeepsLoop ==
    /\ out_pc = "exited" => ~running
    /\ (running /\ out_pc = "top" /\ frame_count < MaxFrames) => ENABLED OutTop

(* A cycle failed (counted without a timestamp) and a later cycle has put a  *)
(* whole frame on the line while the loop is still running.                  *)
C13_Witness ==
    /\ running /\ serial_connection = "open"
    /\ frame_count > last_update_time
    /\ out_pc = "stamp"
    /\ line_events = <<"break_on", "break_off", "write">>

-----------------------------------------------------------------------------
(* Claims about fixture construction, checked under SpecConstruct            *)

(* C14: once a fixture is constructed its channel table has a red, a green   *)
(* and a blue entry, and every entry is either absent (None) or a number in  *)
(* 1..512; a missing or out-of-range channel does not make construction      *)
(* fail.                                                                     *)
C14_ChannelsValidated ==
    \A n \in DOMAIN lights :
        /\ RequiredChannels \subseteq DOMAIN channels[n]
        /\ \A k \in DOMAIN channels[n] :
              channels[n][k] = NoneCh \/ channels[n][k] \in 1..UniverseSize
        /\ exc = "none"

(* A fixture built from a table without green and blue whose intensity was   *)
(* out of range.                                                             *)
C14_Witness ==
    /\ DOMAIN lights = {"par1"}
    /\ channels["par1"] =
          [red |-> UniverseSize, green |-> NoneCh, blue |-> NoneCh, intensity |-> NoneCh]

-----------------------------------------------------------------------------
(* More claims about the setters, checked under SpecFixture                  *)

(* C15: set_light_rgb, set_light_intensity and set_light_strobe addressing a *)
(* channel the fixture does not have, whether marked absent or not listed    *)
(* in its table, return without an error (and there is no slot they could    *)
(* write for it).  exc is the outcome of the last setter call.               *)
C15_AbsentChannelIsSkipped == exc = "none"

(* C16: a setter called with a name that is not a configured fixture raises  *)
(* nothing and leaves the Universe and every fixture's recorded RGB and      *)
(* intensity as they were.                                                   *)
C16_UnknownNameIsNoOp ==
    \A n \in CallNames \ DOMAIN lights :
        /\ \A c \in RgbCalls :
              set_light_rgb(Cur, channels, n, c.rgb[1], c.rgb[2], c.rgb[3], c.intensity) = Cur
        /\ \A i \in Integers3 :
              /\ set_light_intensity(Cur, channels, n, i) = Cur
              /\ set_light_strobe(Cur, channels, n, i) = Cur

(* An unconfigured name exists, and earlier calls have left values in the    *)
(* Universe and in a fixture's record that such a call has to keep.          *)
C16_Witness ==
    /\ CallNames \ DOMAIN lights # {}
    /\ dmx_data[0] = 255 /\ dmx_data[3] = 100
    /\ lights["par1"].current_intensity = 100
    /\ lights["par1"].current_rgb = <<255, 0, 255>>

-----------------------------------------------------------------------------
(* Claims about the effects tick, checked under SpecEffects                  *)

(* C17: when a step of an effects tick fails, update() returns normally and  *)
(* the Universe and every fixture's recorded RGB and intensity are exactly   *)
(* what they were before that tick.                                          *)
C17_FailedTickLeavesState ==
    [][exc' # "none" => (dmx_data' = dmx_data /\ lights' = lights)]_vars

-----------------------------------------------------------------------------
(* Claims about a failing analysis tick, checked under SpecAnalysis          *)

(* C18: when a part of an analysis tick fails (volume, band energies or beat *)
(* detection), then after that tick beat_detected is false and the smoothed  *)
(* volume and the band energies are those from before the tick; the loop     *)
(* goes on to its next tick.  an_pre is the features at the start of the     *)
(* tick, an_failed says the tick raised.                                     *)
C18_FailedTickKeepsValues ==
    an_failed =>
        /\ an_pc \in {"sleep", "top", "window", "exited"}
        /\ features.beat_detected = FALSE
        /\ features.smoothed_volume = an_pre.smoothed_volume
        /\ features.frequency_powers = an_pre.frequency_powers

-----------------------------------------------------------------------------
(* Claims about the tempo estimator, checked under SpecTempo                 *)

InTempoRange(q) == min_tempo * q[2] <= q[1] /\ q[1] <= max_tempo * q[2]
SameTempo(p, q) == p[1] * q[2] = q[1] * p[2]

(* C19: after any sequence of detected beats, every tempo value the          *)
(* estimator computes lies within [min_tempo, max_tempo].  The estimator     *)
(* computed the current tempo when the last beat left usable intervals.      *)
C19_TempoWithinBounds ==
    Len(usable_intervals(onset_deque)) > 0 => InTempoRange(tempo)

(* More beats than the estimator looks at have been detected, and the last   *)
(* estimate was cut down to max_tempo.                                       *)
C19_Witness ==
    /\ Len(onset_deque) > RecentBeats
    /\ Len(usable_intervals(onset_deque)) > 0
    /\ tempo = <<max_tempo, 1>>

(* C20: an estimation that has fewer than 2 usable beat intervals after the  *)
(* outlier rejection leaves the tempo at exactly its previous value.         *)
C20_FewIntervalsKeepTempo ==
    [][Len(usable_intervals(onset_deque')) < 2 => SameTempo(tempo', tempo)]_vars

(* C20 as amended: an estimation that has no usable beat interval after the  *)
(* outlier rejection leaves the tempo at exactly its previous value.         *)
C20_NoIntervalKeepsTempo ==
    [][Len(usable_intervals(onset_deque')) = 0 => tempo' = tempo]_vars

(* Three beats whose two intervals were both rejected (the clock went back   *)
(* between the last two), with the tempo still the one estimated before.     *)
C20_Witness ==
    /\ Len(onset_deque) = 3
    /\ Len(usable_intervals(onset_deque)) = 0
    /\ tempo = <<max_tempo, 1>>

(* The claim's reading of an estimate, on the beat times held: the intervals *)
(* between the last 8 beats, by position, those the rejection keeps, and     *)
(* 60 over their mean as a fraction, clamped.                                *)
RecentPositions ==
    Max(1, Len(onset_deque) - RecentBeats + 1) .. (Len(onset_deque) - 1)
IntervalAt(i) == onset_deque[i + 1] - onset_deque[i]
RecentIntervals == [k \in 1..Cardinality(RecentPositions) |->
                       IntervalAt(Max(1, Len(onset_deque) - RecentBeats + 1) + k - 1)]
KeptStrictly ==
    LET m2 == median2(RecentIntervals)
    IN  {i \in RecentPositions : 4 * IntervalAt(i) > m2 /\ IntervalAt(i) < m2}
KeptInclusively ==
    LET m2 == median2(RecentIntervals)
    IN  {i \in RecentPositions : 4 * IntervalAt(i) >= m2 /\ IntervalAt(i) <= m2}

RECURSIVE TotalOver(_)
TotalOver(S) ==
    IF S = {} THEN 0
    ELSE LET i == CHOOSE j \in S : TRUE IN IntervalAt(i) + TotalOver(S \ {i})

(* tempo q equals 60 / mean of the intervals at positions S, clamped *)
IsClampedRate(q, S) ==
    LET num == SecondsPerMinute * TicksPerSecond * Cardinality(S)
        den == TotalOver(S)
    IN  IF num < min_tempo * den THEN q = <<min_tempo, 1>>
        ELSE IF num > max_tempo * den THEN q = <<max_tempo, 1>>
        ELSE q[1] * den = num * q[2]

(* C21: when an estimation updates the tempo, the new tempo is 60 divided by *)
(* the mean of the usable intervals, clamped to [min_tempo, max_tempo],      *)
(* where the usable intervals are those of the last 8 onsets that lie within *)
(* [0.5*median, 2*median], both bounds included.                             *)
C21_TempoFromIntervalsInclusive ==
    (Len(onset_deque) >= 2 /\ KeptStrictly # {}) => IsClampedRate(tempo, KeptInclusively)

(* C21 as amended: the usable intervals are those strictly between           *)
(* 0.5*median and 2*median; onsets at a constant interval d give             *)
(* clamp(60/d), 120 BPM for d = 0.5 s.                                       *)
C21_TempoFromIntervals ==
    Len(onset_deque) >= 2 =>
        LET kept == KeptStrictly
        IN  kept # {} =>
              /\ IsClampedRate(tempo, kept)
              /\ \A d \in BeatGaps :
                    (\A i \in RecentPositions : IntervalAt(i) = d) =>
                        /\ kept = RecentPositions
                        /\ IsClampedRate(tempo, {Len(onset_deque) - 1})
                        /\ (2 * d = TicksPerSecond) => tempo[1] = 120 * tempo[2]

(* An estimate over a full window of 8 beats in which an interval equal to   *)
(* half the median was rejected, and the result was not clamped.             *)
C21_Witness ==
    /\ Len(onset_deque) > RecentBeats
    /\ KeptStrictly # {} /\ KeptStrictly # KeptInclusively
    /\ tempo[1] > min_tempo * tempo[2] /\ tempo[1] < max_tempo * tempo[2]

(* C22: after every analysed window, whatever its samples, the volume is at  *)
(* least the noise floor.                                                    *)
C22_VolumeAtLeastNoiseFloor ==
    volume_ticks > 0 => fge(current_volume, volume_config.noise_floor)

(* C23: each new smoothed volume lies between its previous value and the     *)
(* instantaneous volume; while the volume stays at the same value v the      *)
(* smoothed volume moves toward v and never passes it.                       *)
Between(a, x, b) == (fge(x, a) /\ fge(b, x)) \/ (fge(a, x) /\ fge(x, b))
C23_SmoothedMovesTowardVolume ==
    [][volume_ticks' > volume_ticks =>
          /\ Between(smoothed_volume, smoothed_volume', current_volume')
          /\ (volume_ticks > 0 /\ current_volume' = current_volume) =>
                /\ fge(current_volume, smoothed_volume) =>
                      fge(smoothed_volume', smoothed_volume) /\ fge(current_volume, smoothed_volume')
                /\ fge(smoothed_volume, current_volume) =>
                      fge(smoothed_volume, smoothed_volume') /\ fge(smoothed_volume', current_volume)]_vars

(* C24: with the target colour held at (r, g, b), repeated ticks bring the   *)
(* colour get_light_state reports to within 1 of it on every channel and     *)
(* keep it there: the colour at which the ticks leave the light, the one     *)
(* that a further tick does not move, is within 1 of the target.             *)
WithinOne(reported, target) ==
    /\ reported # <<>>
    /\ \A i \in 1..3 : reported[1][i] - target[i] \in {-1, 0, 1}
ReportedNearTargets ==
    \A n \in DOMAIN engine.target_colors :
        WithinOne(get_light_state(Cur, n), engine.target_colors[n])
Settled ==
    /\ apply_color_transitions(engine) = engine
    /\ \A n \in DOMAIN engine.current_colors :
          get_light_state(Cur, n) = <<engine.current_colors[n]>>
C24_SettledColourNearTarget == Settled => ReportedNearTargets

(* A step of the engine that is an update's colour part, and one that        *)
(* changes the mode (explicitly or at random).                               *)
ColourStep == tick_pc = "colors" /\ tick_pc' = "idle"
ModeChange == mode_log' # mode_log
AllBlack(colors) == \A n \in DOMAIN colors : colors[n] = <<0, 0, 0>>

(* C25: in strobe mode a tick with beat_detected false sets every fixture's  *)
(* target colour to (0, 0, 0); one with beat_detected true gives all         *)
(* fixtures one and the same colour of the active palette.                   *)
C25_StrobeTargets ==
    [][(ColourStep /\ engine.current_mode = "strobe") =>
          IF tick_features[1].beat_detected
          THEN \E k \in DOMAIN color_palettes[engine.current_palette] :
                  \A n \in DOMAIN engine'.target_colors :
                      engine'.target_colors[n] = color_palettes[engine.current_palette][k]
          ELSE AllBlack(engine'.target_colors)]_vars
C25_Witness ==
    /\ engine.current_mode = "strobe"
    /\ engine_call # <<>> /\ engine_call.op = "update" /\ engine_call.outcome = "returned"
    /\ Cardinality(DOMAIN engine.target_colors) > 1
    /\ AllBlack(engine.target_colors)
    /\ ~AllBlack(engine.current_colors)

(* C26: set_mode or set_palette with an unknown name raises nothing and      *)
(* leaves the current mode, the palette and the mode start time unchanged;   *)
(* after any sequence of explicit and randomized mode changes the current    *)
(* mode is one of the seven modes.                                           *)
SevenModes == {"auto", "pulse", "chase", "strobe", "fade", "ping_pong", "flash_storm"}
UnknownNameCall ==
    /\ engine_ops' = engine_ops + 1
    /\ \/ engine_call'.op = "set_mode" /\ engine_call'.argument[1] \notin SevenModes
       \/ /\ engine_call'.op = "set_palette"
          /\ engine_call'.argument[1] \notin DOMAIN color_palettes
C26_UnknownNamesChangeNothing ==
    /\ [](engine.current_mode \in SevenModes)
    /\ [][UnknownNameCall =>
             /\ engine_call'.outcome = "returned"
             /\ engine'.current_mode = engine.current_mode
             /\ engine'.current_palette = engine.current_palette
             /\ engine'.mode_start_time = engine.mode_start_time]_vars
C26_Witness ==
    /\ engine_call # <<>> /\ engine_call.op = "set_palette"
    /\ engine_call.argument = <<"neon">>
    /\ mode_log # <<>> /\ mode_log.kind = "randomized"
    /\ engine.current_palette = "calm"

(* C27: the capture callback returns without raising for every input, a      *)
(* status that reports input overflow included, and in every case pushes     *)
(* the chunk or drops it by the 90% rule.  Under SpecAudio.                  *)
C27_CallbackReturnsForEveryStatus ==
    cb # <<>> =>
        /\ cb.result \in {"accepted", "dropped"}
        /\ cb.result = "accepted" <=> BelowFillLimit(cb.before)

(* C28: a randomized mode change happens only when more than 30 seconds have *)
(* passed since the last mode change of either kind, and the mode it selects *)
(* differs from the current one.                                             *)
C28_RandomChangeAfterThirtySeconds ==
    [][(ModeChange /\ mode_log'.kind = "randomized") =>
          /\ mode_log # <<>> => mode_log'.at - mode_log.at > 30
          /\ engine'.current_mode # engine.current_mode]_vars
C28_Witness ==
    /\ mode_log # <<>> /\ mode_log.kind = "randomized"
    /\ mode_log.last # <<>> /\ mode_log.at - mode_log.last[1] = 31
    /\ engine_call.op = "update"

(* C29, as claimed: on a mode change the mode-specific scratch state has its *)
(* starting values again.                                                    *)
C29_ModeChangeResetsScratch ==
    [][ModeChange => engine'.scratch = initial_scratch]_vars

(* C29, amended: a mode change, explicit or randomized, leaves the           *)
(* mode-specific scratch state (ping-pong position, direction and colour     *)
(* index, colour-cycle position, flash-storm timers) as it is.               *)
C29_ModeChangeKeepsScratch ==
    [][ModeChange => engine'.scratch = engine.scratch]_vars
C29_Witness ==
    /\ tick_pc = "colors"
    /\ mode_log # <<>> /\ mode_log.kind = "randomized" /\ mode_log.at = clock
    /\ engine.scratch # initial_scratch
    /\ engine.scratch.color_cycle_position > 0

(* C30: a mode change, explicit or randomized, leaves every fixture's        *)
(* current colour unchanged.                                                 *)
C30_ModeChangeKeepsColours ==
    [][ModeChange => engine'.current_colors = engine.current_colors]_vars
C30_Witness ==
    /\ tick_pc = "colors"
    /\ mode_log # <<>> /\ mode_log.kind = "randomized" /\ mode_log.at = clock
    /\ ~AllBlack(engine.current_colors)

(* The part of the last beat's boost that is left t seconds after it, when   *)
(* the boost falls linearly to zero over 3 seconds.                          *)
LinearShare(t) == IF t >= 3 THEN <<0, 1>> ELSE fsub(<<1, 1>>, <<t, 3>>)
BoostOnBeat(audio_features) ==
    LET boost == fmul(audio_features.beat_strength, effects_config.beat_response_strength)
    IN  IF fgt(boost, <<1, 2>>) THEN <<1, 2>> ELSE boost

(* C31: a tick with a beat sets the boost to                                 *)
(* min(beat_strength * beat_response_strength, 0.5); a tick without one,     *)
(* t seconds after the last beat, leaves the boost at the value set on that  *)
(* beat times (1 - t/3) for t up to 3, and at 0 afterwards.                  *)
C31_BoostDecaysLinearly ==
    [][ColourStep =>
          IF tick_features[1].beat_detected
          THEN engine'.beat_intensity_boost = BoostOnBeat(tick_features[1])
          ELSE beat_log # <<>> =>
                  engine'.beat_intensity_boost =
                      fmul(beat_log[1], LinearShare(clock - engine.last_beat_time))]_vars

(* The last call to the engine was an update and it returned without an      *)
(* exception.                                                                *)
TickSucceeded ==
    /\ engine_call # <<>> /\ engine_call.op = "update" /\ engine_call.outcome = "returned"
    /\ exc = "none"
CombinedIntensity ==
    Clamp(int_of(fmul(<<ByteMax, 1>>, fadd(engine.base_intensity, engine.beat_intensity_boost))))

(* C32: after every successful effects tick each fixture's recorded          *)
(* intensity is clamp(255 * (base_intensity + beat_boost), 0, 255), as an    *)
(* integer, with base_intensity within [0.1, 1.0], and its recorded RGB is   *)
(* its smoothed current colour.                                              *)
C32_TickRecordsIntensityAndColour ==
    TickSucceeded =>
        /\ fge(engine.base_intensity, <<1, 10>>) /\ fge(<<1, 1>>, engine.base_intensity)
        /\ \A n \in DOMAIN lights :
              /\ lights[n].current_intensity = CombinedIntensity
              /\ lights[n].current_rgb = engine.current_colors[n]
C32_Witness ==
    /\ TickSucceeded
    /\ fgt(fadd(engine.base_intensity, engine.beat_intensity_boost), <<1, 1>>)
    /\ \E n \in DOMAIN lights :
          /\ channels[n]["intensity"] = NoneCh
          /\ lights[n].current_intensity = ByteMax
          /\ lights[n].current_rgb # <<0, 0, 0>>

(* C33: when a beat triggers a colour change, the palette colours it assigns *)
(* (random per fixture in auto, one for all fixtures in pulse and strobe,    *)
(* rotated by index in chase) are the fixtures' target colours at the end    *)
(* of that tick.                                                             *)
C33_TriggeredColoursAreTargets ==
    palette_log # <<>> =>
        \A n \in DOMAIN palette_log : engine.target_colors[n] = palette_log[n]

(* An onset in the trailing 100 ms of the window the last tick analysed, the *)
(* step of an analysis tick, and the deque with one timestamp appended (the  *)
(* oldest entry gone when it was full).                                      *)
OnsetInTail(w) ==
    w.finite /\ \E t \in w.onsets : t > WindowHundredths - RecentHundredths
BeatTick == an_tick' = an_tick + 1
WithOneMore(deque, t) ==
    IF Len(deque) < OnsetCapacity THEN Append(deque, t) ELSE Append(Tail(deque), t)

C35_ReportedStateInByteRange ==
    \A n \in DOMAIN lights :
        /\ \A k \in 1..3 : get_light_state(Cur, n)[1][k] \in 0..ByteMax
        /\ lights[n].current_intensity \in 0..ByteMax

(* C36: in flash storm mode the volume/tempo intensity scaling never takes a *)
(* colour to black: a fixture whose target colour has a non-zero component   *)
(* and that the tick does not recolour keeps a non-zero target.              *)
StormStep == engine_ops' = engine_ops + 1 /\ engine.current_mode = "flash_storm"
C36_ScalingKeepsColourLit ==
    [][StormStep =>
          \A n \in DOMAIN engine.target_colors :
              (n \notin DOMAIN palette_log' /\ engine.target_colors[n] # <<0, 0, 0>>)
                  => engine'.target_colors[n] # <<0, 0, 0>>]_vars

(* C37: while the capture callback keeps delivering chunks and the analysis  *)
(* loop keeps running, every dropped push is followed by a push that is      *)
(* accepted.                                                                 *)
C37_DroppedPushIsFollowedByAccepted ==
    (cb # <<>> /\ cb.result = "dropped") ~> (cb # <<>> /\ cb.result = "accepted")

(* stop() has completed the blackout and the transmitter has not stopped yet *)
BlackoutDone == stop_pc \in {"sleep", "dmx_stop", "join"} /\ out_pc # "exited"

(* C38: once LightShowController.stop() has performed the blackout, no       *)
(* effects tick writes a fixture again: the colour and intensity channels of *)
(* every fixture stay 0 in the Universe until the transmitter has stopped.   *)
C38_FixturesStayBlackAfterBlackout ==
    BlackoutDone =>
        \A n \in DOMAIN channels : \A k \in RgbKeys(n) : OwnValues(n, dmx_data)[k] = 0

(* C39: a start() that fails to open any audio stream leaves the processor   *)
(* not running; in every reachable state is_running() being true implies     *)
(* that the analysis thread has been started.                                *)
C39_RunningImpliesAnalysisThread == audio_running => an_pc # "idle"

(* C40: in ping pong mode with two fixtures or more, after every tick the    *)
(* wave position is within [0, number of fixtures - 1], the direction is +1  *)
(* or -1 and reverses exactly when the position reaches an end, and the      *)
(* colour index is a valid index into the active palette, also after the     *)
(* active palette has changed to one with fewer colours.                     *)
PingPongStep == engine_ops' = engine_ops + 1 /\ engine_call'.op = "update"
WaveEnd == (Cardinality(DOMAIN engine.target_colors) - 1) * 60
C40_PingPongWaveStaysValid ==
    [][PingPongStep =>
          /\ engine'.scratch.ping_pong_position \in 0..WaveEnd
          /\ engine'.scratch.ping_pong_direction \in {-1, 1}
          /\ (engine'.scratch.ping_pong_direction # engine.scratch.ping_pong_direction)
                <=> (engine'.scratch.ping_pong_position \in {0, WaveEnd})
          /\ engine'.scratch.ping_pong_color_index
                \in 0..(Len(color_palettes[engine'.current_palette]) - 1)]_vars

=============================================================================
